---- MODULE Spec2Model ----
(***************************************************************************)
(* A model of solast-go: the Solidity scanner (internal/lexer), the        *)
(* recursive-descent builder (internal/builder) and the Parse entry point  *)
(* (pkg/parser).  Source text is a sequence of one-character strings; a    *)
(* Go string value (a lexeme, a name, an operator) is such a sequence too. *)
(***************************************************************************)
EXTENDS Integers, Sequences, FiniteSets, TLC

VARIABLES
    input,      \* the source text handed to Parse
    options,    \* builder.Options: [Tolerant, Loc, Range]
    tokens,     \* Builder.tokens
    pos,        \* Builder.pos
    errors,     \* Builder.errors
    spin,       \* history variable: some parsing loop ended an iteration
                \* without moving the cursor forward (the code would spin)
    sourceUnit, \* the SourceUnit under construction in Build
    pc,         \* where the call of Parse is: "new", "build", "loop", "built",
                \* "done", "exited"; "spin" once a loop runs for ever
    built,      \* what Build returned: [tree, err]
    ret,        \* what Parse returned: [tree, err]
    process,    \* cmd/solast: the lines written to stdout and to stderr, and
                \* the exit code once the process has ended
    comparison, \* pkg/version: two versions and what comparing them gave
    walked      \* what Walk or WalkSimple did on the returned tree: the nodes
                \* handed to the visitor, in order, and whether it panicked

vars == <<input, options, tokens, pos, errors, spin, sourceUnit, pc, built, ret,
          process, comparison, walked>>

(***************************************************************************)
(* Go values.                                                              *)
(***************************************************************************)
\* A nil pointer / nil interface.
Nil == [Type |-> "nil"]

\* The byte Lexer.peek returns past the end of the input (Go's 0).
NUL == "NUL"

HasPrefix(s, prefix) ==
    Len(s) >= Len(prefix) /\ SubSeq(s, 1, Len(prefix)) = prefix

\* s[n:]
Drop(s, n) == SubSeq(s, n + 1, Len(s))

\* strings.Index(s, ch) for a one-byte needle: 0-based, -1 when absent.
Index(s, ch) ==
    IF \E i \in 1..Len(s) : s[i] = ch
    THEN (CHOOSE i \in 1..Len(s) : s[i] = ch /\ \A j \in 1..(i - 1) : s[j] # ch) - 1
    ELSE -1

\* strings.ReplaceAll(s, ch, "")
ReplaceAll(s, ch) == SelectSeq(s, LAMBDA c : c # ch)

RECURSIVE Join(_, _)
\* strings.Join(parts, sep)
Join(parts, sep) ==
    IF Len(parts) = 0 THEN <<>>
    ELSE IF Len(parts) = 1 THEN parts[1]
    ELSE parts[1] \o sep \o Join(Tail(parts), sep)

(***************************************************************************)
(* internal/lexer                                                          *)
(***************************************************************************)
Lower == {"a","b","c","d","e","f","g","h","i","j","k","l","m",
          "n","o","p","q","r","s","t","u","v","w","x","y","z"}
Upper == {"A","B","C","D","E","F","G","H","I","J","K","L","M",
          "N","O","P","Q","R","S","T","U","V","W","X","Y","Z"}
Digit == {"0","1","2","3","4","5","6","7","8","9"}

isIdentifierStart(ch) == ch \in Lower \cup Upper \cup {"_", "$"}

isDigit(ch) == ch \in Digit

isIdentifierPart(ch) == isIdentifierStart(ch) \/ isDigit(ch)

isHexDigit(ch) ==
    isDigit(ch) \/ ch \in {"a","b","c","d","e","f"} \/ ch \in {"A","B","C","D","E","F"}

keywords ==
    (<<"a","b","s","t","r","a","c","t">> :> "ABSTRACT")
    @@ (<<"a","d","d","r","e","s","s">> :> "ADDRESS")
    @@ (<<"a","n","o","n","y","m","o","u","s">> :> "ANONYMOUS")
    @@ (<<"a","s">> :> "AS")
    @@ (<<"a","s","s","e","m","b","l","y">> :> "ASSEMBLY")
    @@ (<<"b","o","o","l">> :> "BOOL")
    @@ (<<"b","r","e","a","k">> :> "BREAK")
    @@ (<<"b","y","t","e","s">> :> "BYTES")
    @@ (<<"c","a","l","l","d","a","t","a">> :> "CALLDATA")
    @@ (<<"c","a","s","e">> :> "CASE")
    @@ (<<"c","a","t","c","h">> :> "CATCH")
    @@ (<<"c","o","n","s","t","a","n","t">> :> "CONSTANT")
    @@ (<<"c","o","n","s","t","r","u","c","t","o","r">> :> "CONSTRUCTOR")
    @@ (<<"c","o","n","t","i","n","u","e">> :> "CONTINUE")
    @@ (<<"c","o","n","t","r","a","c","t">> :> "CONTRACT")
    @@ (<<"d","e","f","a","u","l","t">> :> "DEFAULT")
    @@ (<<"d","e","l","e","t","e">> :> "DELETE")
    @@ (<<"d","o">> :> "DO")
    @@ (<<"e","l","s","e">> :> "ELSE")
    @@ (<<"e","m","i","t">> :> "EMIT")
    @@ (<<"e","n","u","m">> :> "ENUM")
    @@ (<<"e","r","r","o","r">> :> "ERROR")
    @@ (<<"e","v","e","n","t">> :> "EVENT")
    @@ (<<"e","x","t","e","r","n","a","l">> :> "EXTERNAL")
    @@ (<<"f","a","l","l","b","a","c","k">> :> "FALLBACK")
    @@ (<<"f","a","l","s","e">> :> "FALSE")
    @@ (<<"f","o","r">> :> "FOR")
    @@ (<<"f","r","o","m">> :> "FROM")
    @@ (<<"f","u","n","c","t","i","o","n">> :> "FUNCTION")
    @@ (<<"g","l","o","b","a","l">> :> "GLOBAL")
    @@ (<<"h","e","x">> :> "HEX")
    @@ (<<"i","f">> :> "IF")
    @@ (<<"i","m","m","u","t","a","b","l","e">> :> "IMMUTABLE")
    @@ (<<"i","m","p","o","r","t">> :> "IMPORT")
    @@ (<<"i","n","d","e","x","e","d">> :> "INDEXED")
    @@ (<<"i","n","t","e","r","f","a","c","e">> :> "INTERFACE")
    @@ (<<"i","n","t","e","r","n","a","l">> :> "INTERNAL")
    @@ (<<"i","s">> :> "IS")
    @@ (<<"l","e","t">> :> "LET")
    @@ (<<"l","i","b","r","a","r","y">> :> "LIBRARY")
    @@ (<<"m","a","p","p","i","n","g">> :> "MAPPING")
    @@ (<<"m","e","m","o","r","y">> :> "MEMORY")
    @@ (<<"m","o","d","i","f","i","e","r">> :> "MODIFIER")
    @@ (<<"n","e","w">> :> "NEW")
    @@ (<<"o","v","e","r","r","i","d","e">> :> "OVERRIDE")
    @@ (<<"p","a","y","a","b","l","e">> :> "PAYABLE")
    @@ (<<"p","r","a","g","m","a">> :> "PRAGMA")
    @@ (<<"p","r","i","v","a","t","e">> :> "PRIVATE")
    @@ (<<"p","u","b","l","i","c">> :> "PUBLIC")
    @@ (<<"p","u","r","e">> :> "PURE")
    @@ (<<"r","e","c","e","i","v","e">> :> "RECEIVE")
    @@ (<<"r","e","t","u","r","n">> :> "RETURN")
    @@ (<<"r","e","t","u","r","n","s">> :> "RETURNS")
    @@ (<<"r","e","v","e","r","t">> :> "REVERT")
    @@ (<<"s","t","o","r","a","g","e">> :> "STORAGE")
    @@ (<<"s","t","r","i","n","g">> :> "STRING_TYPE")
    @@ (<<"s","t","r","u","c","t">> :> "STRUCT")
    @@ (<<"s","w","i","t","c","h">> :> "SWITCH")
    @@ (<<"t","r","a","n","s","i","e","n","t">> :> "TRANSIENT")
    @@ (<<"t","r","u","e">> :> "TRUE")
    @@ (<<"t","r","y">> :> "TRY")
    @@ (<<"t","y","p","e">> :> "TYPE")
    @@ (<<"u","n","c","h","e","c","k","e","d">> :> "UNCHECKED")
    @@ (<<"l","a","y","o","u","t">> :> "LAYOUT")
    @@ (<<"a","t">> :> "AT")
    @@ (<<"u","n","i","c","o","d","e">> :> "UNICODE")
    @@ (<<"u","s","i","n","g">> :> "USING")
    @@ (<<"v","i","e","w">> :> "VIEW")
    @@ (<<"v","i","r","t","u","a","l">> :> "VIRTUAL")
    @@ (<<"w","h","i","l","e">> :> "WHILE")

Token(type, value, line, column, start, end) ==
    [Type |-> type, Value |-> value, Line |-> line, Column |-> column,
     Start |-> start, End |-> end]

\* lexer.New: the scanner's (pos, line, column)
Lexer_New == [pos |-> 0, line |-> 1, column |-> 0]

Lexer_peek(l) == IF l.pos >= Len(input) THEN NUL ELSE input[l.pos + 1]

Lexer_peekAt(l, offset) ==
    IF l.pos + offset >= Len(input) THEN NUL ELSE input[l.pos + offset + 1]

\* advance starting a line at a carriage return as well as at a line feed.
Lexer_advanceCarriageReturn(l) ==
    IF l.pos >= Len(input) THEN l
    ELSE IF input[l.pos + 1] \in {"\n", "\r"}
         THEN [pos |-> l.pos + 1, line |-> l.line + 1, column |-> 0]
         ELSE [pos |-> l.pos + 1, line |-> l.line, column |-> l.column + 1]

Lexer_advance(l) ==
    IF l.pos >= Len(input) THEN l
    ELSE IF input[l.pos + 1] = "\n"
         THEN [pos |-> l.pos + 1, line |-> l.line + 1, column |-> 0]
         ELSE [pos |-> l.pos + 1, line |-> l.line, column |-> l.column + 1]

RECURSIVE skipLineComment(_)
\* the inner loop of a // comment
skipLineComment(l) ==
    IF l.pos < Len(input) /\ Lexer_peek(l) # "\n"
    THEN skipLineComment(Lexer_advance(l))
    ELSE l

RECURSIVE skipBlockComment(_)
\* the inner loop of a /* comment
skipBlockComment(l) ==
    IF l.pos < Len(input)
    THEN IF Lexer_peek(l) = "*" /\ Lexer_peekAt(l, 1) = "/"
         THEN Lexer_advance(Lexer_advance(l))
         ELSE skipBlockComment(Lexer_advance(l))
    ELSE l

RECURSIVE skipWhitespaceAndComments(_)
skipWhitespaceAndComments(l) ==
    IF l.pos < Len(input)
    THEN LET ch == Lexer_peek(l) IN
         IF ch \in {" ", "\t", "\n", "\r"}
         THEN skipWhitespaceAndComments(Lexer_advance(l))
         ELSE IF ch = "/" /\ Lexer_peekAt(l, 1) = "/"
         THEN skipWhitespaceAndComments(skipLineComment(Lexer_advance(Lexer_advance(l))))
         ELSE IF ch = "/" /\ Lexer_peekAt(l, 1) = "*"
         THEN skipWhitespaceAndComments(skipBlockComment(Lexer_advance(Lexer_advance(l))))
         ELSE l
    ELSE l

isValidIntSize(s) == Len(s) # 0 /\ \A i \in 1..Len(s) : isDigit(s[i])

isIntType(value) ==
    \/ value = <<"i","n","t">>
    \/ HasPrefix(value, <<"i","n","t">>) /\ isValidIntSize(Drop(value, 3))

isUintType(value) ==
    \/ value = <<"u","i","n","t">>
    \/ HasPrefix(value, <<"u","i","n","t">>) /\ isValidIntSize(Drop(value, 4))

isBytesNType(value) ==
    /\ HasPrefix(value, <<"b","y","t","e","s">>)
    /\ Len(value) > 5
    /\ \A i \in 6..Len(value) : isDigit(value[i])

\* isValidFixedSuffix without the test that something follows the "x";
\* WordKindFollowsRules rests on that test.
isValidFixedSuffixOpen(s) ==
    LET xIdx == Index(s, "x") IN
    /\ ~(xIdx <= 0)
    /\ \A i \in 1..xIdx : isDigit(s[i])
    /\ \A i \in (xIdx + 2)..Len(s) : isDigit(s[i])

isValidFixedSuffix(s) ==
    LET xIdx == Index(s, "x") IN
    /\ ~(xIdx <= 0 \/ xIdx = Len(s) - 1)
    /\ \A i \in 1..xIdx : isDigit(s[i])
    /\ \A i \in (xIdx + 2)..Len(s) : isDigit(s[i])

isFixedNType(value) ==
    HasPrefix(value, <<"f","i","x","e","d">>) /\ isValidFixedSuffix(Drop(value, 5))

isUfixedNType(value) ==
    HasPrefix(value, <<"u","f","i","x","e","d">>) /\ isValidFixedSuffix(Drop(value, 6))

RECURSIVE scanIdentifierPart(_)
\* for l.pos < len(l.input) && isIdentifierPart(l.peek()) { l.advance() }
scanIdentifierPart(l) ==
    IF l.pos < Len(input) /\ isIdentifierPart(Lexer_peek(l))
    THEN scanIdentifierPart(Lexer_advance(l))
    ELSE l

RECURSIVE scanDigits(_)
\* for l.pos < len(l.input) && (isDigit(l.peek()) || l.peek() == '_') { l.advance() }
scanDigits(l) ==
    IF l.pos < Len(input) /\ (isDigit(Lexer_peek(l)) \/ Lexer_peek(l) = "_")
    THEN scanDigits(Lexer_advance(l))
    ELSE l

RECURSIVE scanHexDigits(_)
\* for l.pos < len(l.input) && (isHexDigit(l.peek()) || l.peek() == '_') { l.advance() }
scanHexDigits(l) ==
    IF l.pos < Len(input) /\ (isHexDigit(Lexer_peek(l)) \/ Lexer_peek(l) = "_")
    THEN scanHexDigits(Lexer_advance(l))
    ELSE l

readIdentifier(l, line, column) ==
    LET tokenType(value) ==
            IF value \in DOMAIN keywords THEN keywords[value]
            ELSE IF HasPrefix(value, <<"i","n","t">>) /\ isIntType(value) THEN "INT"
            ELSE IF HasPrefix(value, <<"u","i","n","t">>) /\ isUintType(value) THEN "UINT"
            ELSE IF HasPrefix(value, <<"b","y","t","e","s">>) /\ isBytesNType(value)
                 THEN "BYTES_N"
            ELSE IF value = <<"f","i","x","e","d">> THEN "FIXED"
            ELSE IF value = <<"u","f","i","x","e","d">> THEN "UFIXED"
            ELSE IF isFixedNType(value) THEN "FIXED_N"
            ELSE IF isUfixedNType(value) THEN "UFIXED_N"
            ELSE "IDENTIFIER"
        token(l1, value) ==
            [l |-> l1,
             tok |-> Token(tokenType(value), value, line, column, l.pos, l1.pos)]
        scanned(l1) == token(l1, SubSeq(input, l.pos + 1, l1.pos))
    IN  scanned(scanIdentifierPart(l))

readNumber(l, line, column) ==
    LET token(l3) ==
            [l |-> l3,
             tok |-> Token("NUMBER",
                           ReplaceAll(SubSeq(input, l.pos + 1, l3.pos), "_"),
                           line, column, l.pos, l3.pos)]
        sign(la) ==
            IF Lexer_peek(la) \in {"+", "-"} THEN Lexer_advance(la) ELSE la
        \* exponent
        exponent(l2) ==
            token(IF Lexer_peek(l2) \in {"e", "E"}
                  THEN scanDigits(sign(Lexer_advance(l2)))
                  ELSE l2)
        \* fractional part
        fraction(l1) ==
            exponent(IF Lexer_peek(l1) = "." /\ Lexer_peekAt(l1, 1) # "."
                     THEN scanDigits(Lexer_advance(l1))
                     ELSE l1)
        \* integer part
    IN  fraction(scanDigits(l))

readHexNumber(l, line, column) ==
    LET token(l1) ==
            [l |-> l1,
             tok |-> Token("HEX_NUMBER", SubSeq(input, l.pos + 1, l1.pos),
                           line, column, l.pos, l1.pos)]
    IN  token(scanHexDigits(Lexer_advance(Lexer_advance(l))))

\* the byte an escape sequence \x stands for
unescape(escaped) ==
    CASE escaped = "n" -> "\n"
      [] escaped = "r" -> "\r"
      [] escaped = "t" -> "\t"
      [] OTHER -> escaped

RECURSIVE readStringLoop(_, _, _)
\* the scanning loop of readString: [l, sb]
readStringLoop(l, quote, sb) ==
    IF l.pos < Len(input)
    THEN LET ch == Lexer_peek(l) IN
         IF ch = quote
         THEN [l |-> Lexer_advance(l), sb |-> sb]
         ELSE IF ch = "\\" /\ l.pos + 1 < Len(input)
         THEN LET l1 == Lexer_advance(l) IN
              readStringLoop(Lexer_advance(l1), quote, Append(sb, unescape(Lexer_peek(l1))))
         ELSE IF ch = "\n" \/ ch = "\r"
         THEN [l |-> l, sb |-> sb]
         ELSE readStringLoop(Lexer_advance(l), quote, Append(sb, ch))
    ELSE [l |-> l, sb |-> sb]

readString(l, line, column) ==
    LET token(r) ==
            [l |-> r.l, tok |-> Token("STRING", r.sb, line, column, l.pos, r.l.pos)]
    IN  token(readStringLoop(Lexer_advance(l), Lexer_peek(l), <<>>))

\* The three-character switch without its "<<=" case;
\* OperatorIsLongestMatch rests on every row of the table.
threeCharOperatorsShort ==
    (<<">",">","=">> :> "ASSIGN_SHR")

\* the cases of readOperator's three-character switch other than ">>>"
threeCharOperators ==
    (<<">",">","=">> :> "ASSIGN_SHR") @@ (<<"<","<","=">> :> "ASSIGN_SHL")

\* the cases of readOperator's two-character switch
twoCharOperators ==
    (<<"=",">">> :> "ARROW")
    @@ (<<"-",">">> :> "RIGHT_ARROW")
    @@ (<<"=","=">> :> "EQ")
    @@ (<<"!","=">> :> "NEQ")
    @@ (<<"<","=">> :> "LTE")
    @@ (<<">","=">> :> "GTE")
    @@ (<<"&","&">> :> "AND")
    @@ (<<"|","|">> :> "OR")
    @@ (<<"<","<">> :> "SHL")
    @@ (<<">",">">> :> "SHR")
    @@ (<<"*","*">> :> "EXP")
    @@ (<<"+","+">> :> "INC")
    @@ (<<"-","-">> :> "DEC")
    @@ (<<"+","=">> :> "ASSIGN_ADD")
    @@ (<<"-","=">> :> "ASSIGN_SUB")
    @@ (<<"*","=">> :> "ASSIGN_MUL")
    @@ (<<"/","=">> :> "ASSIGN_DIV")
    @@ (<<"%","=">> :> "ASSIGN_MOD")
    @@ (<<"&","=">> :> "ASSIGN_AND")
    @@ (<<"|","=">> :> "ASSIGN_OR")
    @@ (<<"^","=">> :> "ASSIGN_XOR")

\* the cases of readOperator's single-character switch
oneCharOperators ==
    ("(" :> "LPAREN") @@ (")" :> "RPAREN") @@ ("[" :> "LBRACK") @@ ("]" :> "RBRACK")
    @@ ("{" :> "LBRACE") @@ ("}" :> "RBRACE") @@ (":" :> "COLON") @@ (";" :> "SEMICOLON")
    @@ ("." :> "PERIOD") @@ ("," :> "COMMA") @@ ("?" :> "QUESTION") @@ ("=" :> "ASSIGN")
    @@ ("<" :> "LT") @@ (">" :> "GT") @@ ("!" :> "NOT") @@ ("&" :> "BIT_AND")
    @@ ("|" :> "BIT_OR") @@ ("^" :> "BIT_XOR") @@ ("~" :> "BIT_NOT") @@ ("+" :> "ADD")
    @@ ("-" :> "SUB") @@ ("*" :> "MUL") @@ ("/" :> "DIV") @@ ("%" :> "MOD")

readOperator(l, line, column) ==
    LET token(l1, type, value) ==
            [l |-> l1, tok |-> Token(type, value, line, column, l.pos, l1.pos)]
        sar(l3) ==
            IF Lexer_peek(l3) = "="
            THEN token(Lexer_advance(l3), "ASSIGN_SAR", <<">",">",">","=">>)
            ELSE token(l3, "SAR", <<">",">",">">>)
        operator(ch, l1, three, two) ==
            IF l1.pos + 1 < Len(input) /\ three = <<">",">",">">>
            THEN sar(Lexer_advance(Lexer_advance(l1)))
            ELSE IF l1.pos + 1 < Len(input) /\ three \in DOMAIN threeCharOperators
            THEN token(Lexer_advance(Lexer_advance(l1)),
                       threeCharOperators[three], three)
            ELSE IF l1.pos < Len(input) /\ two \in DOMAIN twoCharOperators
            THEN token(Lexer_advance(l1), twoCharOperators[two], two)
            ELSE IF ch \in DOMAIN oneCharOperators
            THEN token(l1, oneCharOperators[ch], <<ch>>)
            ELSE token(l1, "ILLEGAL", <<ch>>)
        advanced(ch, l1) ==
            operator(ch, l1, <<ch, Lexer_peek(l1), Lexer_peekAt(l1, 1)>>,
                     <<ch, Lexer_peek(l1)>>)
    IN  advanced(Lexer_peek(l), Lexer_advance(l))

NextToken(l0) ==
    LET token(l, ch) ==
            IF l.pos >= Len(input)
            THEN [l |-> l,
                  tok |-> Token("EOF", <<>>, l.line, l.column, l.pos, l.pos)]
            ELSE IF isIdentifierStart(ch) THEN readIdentifier(l, l.line, l.column)
            ELSE IF ch = "0" /\ l.pos + 1 < Len(input)
                    /\ Lexer_peekAt(l, 1) \in {"x", "X"}
            THEN readHexNumber(l, l.line, l.column)
            ELSE IF isDigit(ch)
                    \/ (ch = "." /\ l.pos + 1 < Len(input)
                        /\ isDigit(Lexer_peekAt(l, 1)))
            THEN readNumber(l, l.line, l.column)
            ELSE IF ch = "\"" \/ ch = "'" THEN readString(l, l.line, l.column)
            ELSE readOperator(l, l.line, l.column)
        skipped(l) == token(l, Lexer_peek(l))
    IN  skipped(skipWhitespaceAndComments(l0))

RECURSIVE TokenizeUntilIllegal(_)

\* The loop of Tokenize ending at an ILLEGAL token as it does at EOF;
\* ScanEndsWithOneEOF rests on the loop going on after such a token.
TokenizeUntilIllegal(s) ==
    LET next(r) ==
            IF r.tok.Type \in {"EOF", "ILLEGAL"} THEN Append(s.tokens, r.tok)
            ELSE TokenizeUntilIllegal([l |-> r.l, tokens |-> Append(s.tokens, r.tok)])
    IN  next(NextToken(s.l))

RECURSIVE TokenizeLoop(_)

\* The loop of Tokenize; s is the scanner l with the local variable tokens.
TokenizeLoop(s) ==
    LET next(r) ==
            IF r.tok.Type = "EOF" THEN Append(s.tokens, r.tok)
            ELSE TokenizeLoop([l |-> r.l, tokens |-> Append(s.tokens, r.tok)])
    IN  next(NextToken(s.l))

Tokenize == TokenizeLoop([l |-> Lexer_New, tokens |-> <<>>])
(***************************************************************************)
(* internal/builder: token navigation.  A builder value b carries the      *)
(* fields of *Builder that parsing changes, pos and errors, and the        *)
(* history flag spin, which records that a loop of the parser has gone     *)
(* round without consuming a token: from there the program would run the   *)
(* same iteration for ever, so nothing is parsed from a builder that has   *)
(* spin set.  tokens and options are fixed once New has run.               *)
(***************************************************************************)
\* lexer.Token{Type: lexer.EOF}
EOFToken ==
    [Type |-> "EOF", Value |-> <<>>, Line |-> 0, Column |-> 0,
     Start |-> 0, End |-> 0]

peek(b) == IF b.pos >= Len(tokens) THEN EOFToken ELSE tokens[b.pos + 1]

previous(b) == IF b.pos = 0 THEN EOFToken ELSE tokens[b.pos]

isAtEnd(b) == peek(b).Type = "EOF"

\* A method that returns a token gives the token and the builder afterwards.
Returned(tok, b) == [tok |-> tok, b |-> b]

advance(b) ==
    IF ~isAtEnd(b)
    THEN Returned(tokens[b.pos + 1], [b EXCEPT !.pos = @ + 1])
    ELSE Returned(previous(b), b)

check(b, t) == IF isAtEnd(b) THEN FALSE ELSE peek(b).Type = t

\* fmt.Sprintf(format, args...): the message is kept as its format and its
\* arguments.
Sprintf(format, args) == [format |-> format, args |-> args]

RECURSIVE synchronizeLoop(_)

synchronizeLoop(b) ==
    IF isAtEnd(b) THEN b
    ELSE IF previous(b).Type = "SEMICOLON" THEN b
    ELSE IF peek(b).Type \in {"CONTRACT", "INTERFACE", "LIBRARY", "FUNCTION",
                              "STRUCT", "ENUM", "EVENT", "ERROR",
                              "PRAGMA", "IMPORT", "USING"} THEN b
    ELSE synchronizeLoop(advance(b).b)

\* synchronize without its first advance; SynchronizeStopsAtBoundary rests
\* on that advance.
synchronizeInPlace(b) == synchronizeLoop(b)

synchronize(b) == synchronizeLoop(advance(b).b)

\* addError taking its position from the token before the cursor;
\* ExpectAdvancesOrRecords rests on the position being that of peek().
addErrorAtPrevious(b, message) ==
    LET appended(tok) ==
            [b EXCEPT !.errors = Append(@, [Message |-> message,
                                            Line |-> tok.Line,
                                            Column |-> tok.Column])]
    IN  IF options.Tolerant THEN synchronize(appended(previous(b)))
        ELSE appended(previous(b))

addError(b, message) ==
    LET appended(tok) ==
            [b EXCEPT !.errors = Append(@, [Message |-> message,
                                            Line |-> tok.Line,
                                            Column |-> tok.Column])]
    IN  IF options.Tolerant THEN synchronize(appended(peek(b)))
        ELSE appended(peek(b))

\* expectFailed without the advance of strict mode; EveryLoopAdvances rests on
\* that advance.
expectFailedInPlace(b) == Returned(peek(b), b)

\* The end of expect and of expectKeyword once the error is recorded:
\* "if !b.options.Tolerant { b.advance() }; return b.peek()".
expectFailed(b) ==
    IF ~options.Tolerant
    THEN Returned(peek(advance(b).b), advance(b).b)
    ELSE Returned(peek(b), b)

\* The first argument of expect's message is the token type, <<t>>, which
\* the code prints through t.String().
expect(b, t) ==
    IF check(b, t) THEN advance(b)
    ELSE expectFailed(addError(b, Sprintf("expected '%s', got '%s'",
                                          << <<t>>, peek(b).Value >>)))

expectKeyword(b, keyword) ==
    IF peek(b).Value = keyword THEN advance(b)
    ELSE expectFailed(addError(b, Sprintf("expected '%s', got '%s'",
                                          <<keyword, peek(b).Value>>)))

isElementaryTypeName(b) ==
    peek(b).Type \in {"ADDRESS", "BOOL", "STRING_TYPE", "BYTES", "INT", "UINT",
                      "BYTE", "BYTES_N", "FIXED", "UFIXED", "FIXED_N", "UFIXED_N"}

isTypeName(b) ==
    isElementaryTypeName(b) \/ check(b, "MAPPING")
        \/ check(b, "FUNCTION") \/ check(b, "IDENTIFIER")

isContextualKeyword(b) ==
    peek(b).Type \in {"FROM", "ERROR", "REVERT", "GLOBAL", "TRANSIENT", "LAYOUT", "AT"}

\* The node types the type switch of setLocation has a case for.
locationSetter ==
    {"SourceUnit", "PragmaDirective", "ImportDirective", "ContractDefinition",
     "InheritanceSpecifier", "FunctionDefinition", "ModifierDefinition",
     "ModifierInvocation", "StateVariableDeclaration", "VariableDeclaration",
     "VariableDeclarationStatement", "StructDefinition", "EnumDefinition",
     "EventDefinition", "ErrorDefinition", "UsingForDeclaration",
     "UserDefinedValueTypeDefinition", "ElementaryTypeName",
     "UserDefinedTypeName", "Mapping", "ArrayTypeName", "FunctionTypeName",
     "Block", "UncheckedBlock", "ExpressionStatement", "IfStatement",
     "WhileStatement", "DoWhileStatement", "ForStatement", "ContinueStatement",
     "BreakStatement", "ReturnStatement", "EmitStatement", "RevertStatement",
     "TryStatement", "CatchClause", "InlineAssembly", "AssemblyBlock",
     "AssemblyCall", "AssemblyLocalDefinition", "AssemblyAssignment",
     "AssemblyIdentifier", "AssemblyLiteral", "AssemblyIf", "AssemblySwitch",
     "AssemblyFor", "AssemblyFunctionDefinition", "TupleExpression",
     "NewExpression", "FunctionCall", "BinaryOperation", "UnaryOperation",
     "Conditional", "MemberAccess", "IndexAccess", "IndexRangeAccess",
     "FunctionCallOptions", "Identifier", "NumberLiteral", "BooleanLiteral",
     "StringLiteral", "HexLiteral"}

\* setLocation giving the range whenever either option is set;
\* LocationOnlyIfRequested rests on the test of each option.
setLocationBoth(node, startTok, endTok) ==
    IF ~options.Loc /\ ~options.Range THEN node
    ELSE IF node.Type \notin locationSetter THEN node
    ELSE [node EXCEPT
            !.Loc = IF options.Loc
                    THEN [start |-> [line |-> startTok.Line,
                                     column |-> startTok.Column],
                          end   |-> [line |-> endTok.Line,
                                     column |-> endTok.Column + Len(endTok.Value)]]
                    ELSE Nil,
            !.Range = [lo |-> startTok.Start, hi |-> endTok.End]]

\* ast.Location and ast.Range; len(endTok.Value) is the lexeme's length.
setLocation(node, startTok, endTok) ==
    IF ~options.Loc /\ ~options.Range THEN node
    ELSE IF node.Type \notin locationSetter THEN node
    ELSE [node EXCEPT
            !.Loc = IF options.Loc
                    THEN [start |-> [line |-> startTok.Line,
                                     column |-> startTok.Column],
                          end   |-> [line |-> endTok.Line,
                                     column |-> endTok.Column + Len(endTok.Value)]]
                    ELSE Nil,
            !.Range = IF options.Range
                      THEN [lo |-> startTok.Start, hi |-> endTok.End]
                      ELSE Nil]

\* A parse function gives the node it returns and the builder afterwards.
R(b, node) == [node |-> node, b |-> b]

\* A loop or a list parser gives the slice built and the builder afterwards.
RL(b, list) == [list |-> list, b |-> b]

\* "if x != nil { list = append(list, x) }"
appendNode(list, node) == IF node # Nil THEN Append(list, node) ELSE list

\* The end of one iteration of a parsing loop that began at b0 and is about
\* to test its condition again at b1.
Iterated(b0, b1) == IF b1.pos > b0.pos THEN b1 ELSE [b1 EXCEPT !.spin = TRUE]

\* What a method gives when it is entered on a builder that has spin set.
Spun(b) == [node |-> Nil, list |-> <<>>, b |-> b]
(***************************************************************************)
(* internal/builder/expressions.go.  An AST node is a record with the      *)
(* fields of its Go struct: Type, Loc and Range of ast.BaseNode (Nil when  *)
(* the pointer is nil) and the struct's own fields; a nil slice and an     *)
(* empty slice are both <<>>.                                              *)
(***************************************************************************)
\* A method call b.name(): Call gives what the method returns and the
\* builder afterwards.
RECURSIVE Call(_, _)

\* "b.setLocation(node, startTok, b.previous()); return node"
Located(b, node, startTok) ==
    IF b.spin THEN [node |-> node, b |-> b]
    ELSE [node |-> setLocation(node, startTok, previous(b)), b |-> b]

Identifier(name) ==
    [Type |-> "Identifier", Loc |-> Nil, Range |-> Nil, Name |-> name]

BinaryOperation(op, left, right) ==
    [Type |-> "BinaryOperation", Loc |-> Nil, Range |-> Nil,
     Operator |-> op, Left |-> left, Right |-> right]

UnaryOperation(op, expr, isPrefix) ==
    [Type |-> "UnaryOperation", Loc |-> Nil, Range |-> Nil,
     Operator |-> op, SubExpression |-> expr, IsPrefix |-> isPrefix]

FunctionCall(callee, arguments, names) ==
    [Type |-> "FunctionCall", Loc |-> Nil, Range |-> Nil,
     Expression |-> callee, Arguments |-> arguments, Names |-> names,
     Identifiers |-> <<>>]

NumberLiteral(number, subDenomination) ==
    [Type |-> "NumberLiteral", Loc |-> Nil, Range |-> Nil,
     Number |-> number, SubDenomination |-> subDenomination]

BooleanLiteral(value) ==
    [Type |-> "BooleanLiteral", Loc |-> Nil, Range |-> Nil, Value |-> value]

TupleExpression(components, isArray) ==
    [Type |-> "TupleExpression", Loc |-> Nil, Range |-> Nil,
     Components |-> components, IsArray |-> isArray]

ElementaryTypeName(name, stateMutability) ==
    [Type |-> "ElementaryTypeName", Loc |-> Nil, Range |-> Nil,
     Name |-> name, StateMutability |-> stateMutability]

isAssignmentOperator(b) ==
    \E t \in {"ASSIGN", "ASSIGN_ADD", "ASSIGN_SUB", "ASSIGN_MUL", "ASSIGN_DIV",
              "ASSIGN_MOD", "ASSIGN_AND", "ASSIGN_OR", "ASSIGN_XOR",
              "ASSIGN_SHL", "ASSIGN_SHR", "ASSIGN_SAR"} : check(b, t)

checkNumberUnit(b) ==
    IF ~check(b, "IDENTIFIER") THEN FALSE
    ELSE peek(b).Value \in {<<"w","e","i">>, <<"g","w","e","i">>,
                            <<"e","t","h","e","r">>,
                            <<"s","e","c","o","n","d","s">>,
                            <<"m","i","n","u","t","e","s">>,
                            <<"h","o","u","r","s">>, <<"d","a","y","s">>,
                            <<"w","e","e","k","s">>, <<"y","e","a","r","s">>}

\* The loop "for b.check(op) || ... { op := b.advance().Value;
\* right := b.operand(); left = &BinaryOperation{op, left, right} }" of the
\* ten left-associative levels, entered with the first operand parsed.
RECURSIVE parseBinaryLoop(_, _, _)

parseBinaryLoop(left, operators, operand) ==
    IF left.b.spin THEN left
    ELSE IF \A t \in operators : ~check(left.b, t) THEN left
    ELSE LET op    == advance(left.b)
             right == Call(operand, op.b)
         IN  parseBinaryLoop(
                 R(right.b, BinaryOperation(op.tok.Value, left.node, right.node)),
                 operators, operand)

\* A primary expression whose parse is one advance().
parseToken(b, node) == [node |-> node, b |-> advance(b).b]

parseNumberLiteral(b, tok) ==
    IF checkNumberUnit(b)
    THEN R(advance(b).b, NumberLiteral(tok.Value, advance(b).tok.Value))
    ELSE R(b, NumberLiteral(tok.Value, <<>>))

\* The loop of parseStringLiteral taking the token at the cursor and no
\* more; AdjacentStringsAreOneLiteral rests on the loop going on.
parseStringLiteralFirst(b, parts, isUnicode, isHex) ==
    [parts |-> Append(parts, advance(b).tok.Value),
     isUnicode |-> isUnicode \/ advance(b).tok.Type = "UNICODE_STRING",
     isHex |-> isHex \/ advance(b).tok.Type = "HEX_STRING",
     b |-> advance(b).b]

RECURSIVE parseStringLiteralLoop(_, _, _, _)

parseStringLiteralLoop(b, parts, isUnicode, isHex) ==
    IF check(b, "STRING") \/ check(b, "UNICODE_STRING") \/ check(b, "HEX_STRING")
    THEN parseStringLiteralLoop(advance(b).b, Append(parts, advance(b).tok.Value),
                                isUnicode \/ advance(b).tok.Type = "UNICODE_STRING",
                                isHex \/ advance(b).tok.Type = "HEX_STRING")
    ELSE [parts |-> parts, isUnicode |-> isUnicode, isHex |-> isHex, b |-> b]

parseStringLiteral(b) ==
    LET literal(l) ==
            IF l.b.spin THEN Spun(l.b)
            ELSE IF l.isHex
            THEN R(l.b, [Type |-> "HexLiteral", Loc |-> Nil, Range |-> Nil,
                              Value |-> l.parts[1], Parts |-> l.parts])
            ELSE R(l.b, [Type |-> "StringLiteral", Loc |-> Nil, Range |-> Nil,
                              Value |-> l.parts[1], Parts |-> l.parts,
                              IsUnicode |-> l.isUnicode])
    IN  literal(parseStringLiteralLoop(b, <<>>, FALSE, FALSE))

RECURSIVE parseTupleLoop(_, _)

parseTupleLoop(b, components) ==
    IF b.spin \/ ~check(b, "COMMA") THEN RL(b, components)
    ELSE LET component(b1) ==
                 IF check(b1, "RPAREN") \/ check(b1, "COMMA") THEN R(b1, Nil)
                 ELSE Call("parseExpression", b1)
             next(expr) == parseTupleLoop(expr.b, Append(components, expr.node))
         IN  next(component(advance(b).b))

parseTupleOrParenthesized(b) ==
    LET tuple(l) ==
            IF l.b.spin THEN Spun(l.b)
            ELSE Located(expect(l.b, "RPAREN").b, TupleExpression(l.list, FALSE),
                         advance(b).tok)
        rest(first) ==
            IF first.b.spin THEN Spun(first.b)
            ELSE IF check(first.b, "COMMA")
            THEN tuple(parseTupleLoop(first.b, <<first.node>>))
            ELSE R(expect(first.b, "RPAREN").b, first.node)
        components(b0) ==
            IF check(b0, "RPAREN")
            THEN R(advance(b0).b, TupleExpression(<<>>, FALSE))
            ELSE rest(IF check(b0, "COMMA") THEN R(b0, Nil)
                      ELSE Call("parseExpression", b0))
    IN  components(advance(b).b)

parseArrayLiteral(b) ==
    LET components(b0) ==
            IF ~check(b0, "RBRACK") THEN Call("parseExpressionList", b0)
            ELSE RL(b0, <<>>)
        literal(l) ==
            Located(expect(l.b, "RBRACK").b, TupleExpression(l.list, TRUE),
                    advance(b).tok)
    IN  literal(components(advance(b).b))

parseNewExpression(b) ==
    LET expression(typeName) ==
            IF typeName.b.spin THEN Spun(typeName.b)
            ELSE Located(typeName.b,
                         [Type |-> "NewExpression", Loc |-> Nil, Range |-> Nil,
                          TypeName |-> typeName.node],
                         advance(b).tok)
    IN  expression(Call("parseTypeName", advance(b).b))

parseTypeExpression(b) ==
    LET expression(typeName) ==
            IF typeName.b.spin THEN Spun(typeName.b)
            ELSE R(expect(typeName.b, "RPAREN").b,
                   FunctionCall(Identifier(<<"t","y","p","e">>), <<typeName.node>>, <<>>))
    IN  expression(Call("parseTypeName", expect(advance(b).b, "LPAREN").b))

parsePayableConversion(b) ==
    LET conversion(expr) ==
            IF expr.b.spin THEN Spun(expr.b)
            ELSE Located(expect(expr.b, "RPAREN").b,
                         FunctionCall(ElementaryTypeName(<<"a","d","d","r","e","s","s">>,
                                                         <<"p","a","y","a","b","l","e">>),
                                      <<expr.node>>, <<>>),
                         advance(b).tok)
    IN  conversion(Call("parseExpression", expect(advance(b).b, "LPAREN").b))

parsePrimary(b) ==
    LET primary(tok) ==
            CASE tok.Type = "IDENTIFIER" -> parseToken(b, Identifier(tok.Value))
              [] tok.Type \in {"FROM", "ERROR", "REVERT", "GLOBAL", "TRANSIENT",
                               "LAYOUT", "AT"} ->
                    parseToken(b, Identifier(tok.Value))
              [] tok.Type = "NUMBER" -> parseNumberLiteral(advance(b).b, tok)
              [] tok.Type = "HEX_NUMBER" ->
                    parseToken(b, NumberLiteral(tok.Value, <<>>))
              [] tok.Type \in {"STRING", "HEX_STRING", "UNICODE_STRING"} ->
                    parseStringLiteral(b)
              [] tok.Type = "TRUE" -> parseToken(b, BooleanLiteral(TRUE))
              [] tok.Type = "FALSE" -> parseToken(b, BooleanLiteral(FALSE))
              [] tok.Type = "LPAREN" -> parseTupleOrParenthesized(b)
              [] tok.Type = "LBRACK" -> parseArrayLiteral(b)
              [] tok.Type = "NEW" -> parseNewExpression(b)
              [] tok.Type = "TYPE" -> parseTypeExpression(b)
              [] tok.Type = "PAYABLE" -> parsePayableConversion(b)
              [] tok.Type \in {"ADDRESS", "BOOL", "STRING_TYPE", "BYTES", "INT",
                               "UINT", "BYTE", "BYTES_N", "FIXED", "UFIXED",
                               "FIXED_N", "UFIXED_N"} ->
                    Call("parseElementaryTypeName", b)
              [] OTHER -> parseToken(addError(b, Sprintf("expected expression", <<>>)),
                                     Identifier(<<>>))
    IN  primary(peek(b))

\* The loop "name: value, ..." up to the closing brace, which
\* parseFunctionCall and parseFunctionCallOptions both run.
RECURSIVE parseNamedArguments(_, _, _)

parseNamedArguments(b, names, values) ==
    IF b.spin \/ check(b, "RBRACE") \/ isAtEnd(b)
    THEN [names |-> names, values |-> values, b |-> b]
    ELSE LET comma(b2) == IF ~check(b2, "RBRACE") THEN expect(b2, "COMMA").b
                          ELSE b2
             next(value) ==
                 IF value.b.spin THEN Spun(value.b)
                 ELSE parseNamedArguments(Iterated(b, comma(value.b)),
                                          Append(names, expect(b, "IDENTIFIER").tok.Value),
                                          Append(values, value.node))
         IN  next(Call("parseExpression",
                       expect(expect(b, "IDENTIFIER").b, "COLON").b))

parseFunctionCall(b, callee) ==
    LET named(l) ==
            IF l.b.spin THEN Spun(l.b)
            ELSE R(expect(expect(l.b, "RBRACE").b, "RPAREN").b,
                   FunctionCall(callee, l.values, l.names))
        positional(l) ==
            IF l.b.spin THEN Spun(l.b)
            ELSE R(expect(l.b, "RPAREN").b, FunctionCall(callee, l.list, <<>>))
        arguments(b1) ==
            IF check(b1, "LBRACE")
            THEN named(parseNamedArguments(advance(b1).b, <<>>, <<>>))
            ELSE positional(Call("parseExpressionList", b1))
    IN  arguments(expect(b, "LPAREN").b)

parseFunctionCallOptions(b, expr) ==
    LET options_(l) ==
            IF l.b.spin THEN Spun(l.b)
            ELSE R(expect(l.b, "RBRACE").b,
                   [Type |-> "FunctionCallOptions", Loc |-> Nil, Range |-> Nil,
                    Expression |-> expr, Names |-> l.names, Options |-> l.values])
    IN  options_(parseNamedArguments(expect(b, "LBRACE").b, <<>>, <<>>))

\* The loop of parseCallMemberIndex and of parseTryCallMemberIndex, entered
\* with the primary expression parsed; the latter leaves "{" alone
\* (callOptions = FALSE).
RECURSIVE parseCallMemberIndexLoop(_, _)

parseCallMemberIndexLoop(expr, callOptions) ==
    IF expr.b.spin THEN Spun(expr.b)
    ELSE LET memberAccess(memberTok) ==
                 R(memberTok.b, [Type |-> "MemberAccess", Loc |-> Nil, Range |-> Nil,
                                 Expression |-> expr.node,
                                 MemberName |-> memberTok.tok.Value])
             indexStart(b1) ==
                 IF ~check(b1, "COLON") /\ ~check(b1, "RBRACK")
                 THEN Call("parseExpression", b1) ELSE R(b1, Nil)
             indexEnd(b2) ==
                 IF ~check(b2, "RBRACK") THEN Call("parseExpression", b2)
                 ELSE R(b2, Nil)
             rangeAccess(start, end) ==
                 R(expect(end.b, "RBRACK").b,
                   [Type |-> "IndexRangeAccess", Loc |-> Nil, Range |-> Nil,
                    Base |-> expr.node, IndexStart |-> start.node,
                    IndexEnd |-> end.node])
             indexAccess(start) ==
                 IF check(start.b, "COLON")
                 THEN rangeAccess(start, indexEnd(advance(start.b).b))
                 ELSE R(expect(start.b, "RBRACK").b,
                        [Type |-> "IndexAccess", Loc |-> Nil, Range |-> Nil,
                         Base |-> expr.node, Index |-> start.node])
    IN  IF expr.b.spin THEN expr
        ELSE CASE check(expr.b, "PERIOD") ->
                    parseCallMemberIndexLoop(
                        memberAccess(advance(advance(expr.b).b)), callOptions)
               [] check(expr.b, "LBRACK") ->
                    parseCallMemberIndexLoop(
                        indexAccess(indexStart(advance(expr.b).b)), callOptions)
               [] check(expr.b, "LPAREN") ->
                    parseCallMemberIndexLoop(
                        parseFunctionCall(expr.b, expr.node), callOptions)
               [] callOptions /\ check(expr.b, "LBRACE") ->
                    parseCallMemberIndexLoop(
                        parseFunctionCallOptions(expr.b, expr.node), callOptions)
               [] OTHER -> expr

parseCallMemberIndex(b) == parseCallMemberIndexLoop(Call("parsePrimary", b), TRUE)

RECURSIVE parsePostfixLoop(_)

parsePostfixLoop(expr) ==
    IF expr.b.spin THEN expr
    ELSE IF ~(check(expr.b, "INC") \/ check(expr.b, "DEC")) THEN expr
    ELSE parsePostfixLoop(
             R(advance(expr.b).b,
               UnaryOperation(advance(expr.b).tok.Value, expr.node, FALSE)))

parsePostfix(b) == parsePostfixLoop(parseCallMemberIndex(b))

parseUnary(b) ==
    LET operation(expr) ==
            IF expr.b.spin THEN Spun(expr.b)
            ELSE R(expr.b, UnaryOperation(advance(b).tok.Value, expr.node, TRUE))
    IN  IF \E t \in {"NOT", "BIT_NOT", "SUB", "ADD", "INC", "DEC", "DELETE"} :
               check(b, t)
        THEN operation(Call("parseUnary", advance(b).b))
        ELSE Call("parsePostfix", b)

\* parseExponentiation written as a loop like the levels above it;
\* AssociativityFollowsTable rests on its calling itself for the right operand.
parseExponentiationLeft(b) ==
    parseBinaryLoop(parseUnary(b), {"EXP"}, "parseUnary")

parseExponentiation(b) ==
    LET operation(left, op, right) ==
            IF right.b.spin THEN Spun(right.b)
            ELSE R(right.b, BinaryOperation(op.tok.Value, left.node, right.node))
        rest(left) ==
            IF left.b.spin \/ ~check(left.b, "EXP") THEN left
            ELSE operation(left, advance(left.b),
                           Call("parseExponentiation", advance(left.b).b))
    IN  rest(parseUnary(b))

\* The table below with the operators of the last two levels exchanged;
\* PrecedenceFollowsTable rests on which function checks for which operators.
binaryOperatorsExchanged ==
    << [name |-> "parseLogicalOr",      operators |-> {"OR"}],
       [name |-> "parseLogicalAnd",     operators |-> {"AND"}],
       [name |-> "parseEquality",       operators |-> {"EQ", "NEQ"}],
       [name |-> "parseRelational",     operators |-> {"LT", "GT", "LTE", "GTE"}],
       [name |-> "parseBitwiseOr",      operators |-> {"BIT_OR"}],
       [name |-> "parseBitwiseXor",     operators |-> {"BIT_XOR"}],
       [name |-> "parseBitwiseAnd",     operators |-> {"BIT_AND"}],
       [name |-> "parseShift",          operators |-> {"SHL", "SHR", "SAR"}],
       [name |-> "parseAdditive",       operators |-> {"MUL", "DIV", "MOD"}],
       [name |-> "parseMultiplicative", operators |-> {"ADD", "SUB"}] >>

\* The ten functions parseLogicalOr ... parseMultiplicative, outermost first:
\* the operators that the loop of each one checks for.  Each of them calls the
\* next one for its operands, and parseMultiplicative calls
\* parseExponentiation.
binaryOperators ==
    << [name |-> "parseLogicalOr",      operators |-> {"OR"}],
       [name |-> "parseLogicalAnd",     operators |-> {"AND"}],
       [name |-> "parseEquality",       operators |-> {"EQ", "NEQ"}],
       [name |-> "parseRelational",     operators |-> {"LT", "GT", "LTE", "GTE"}],
       [name |-> "parseBitwiseOr",      operators |-> {"BIT_OR"}],
       [name |-> "parseBitwiseXor",     operators |-> {"BIT_XOR"}],
       [name |-> "parseBitwiseAnd",     operators |-> {"BIT_AND"}],
       [name |-> "parseShift",          operators |-> {"SHL", "SHR", "SAR"}],
       [name |-> "parseAdditive",       operators |-> {"ADD", "SUB"}],
       [name |-> "parseMultiplicative", operators |-> {"MUL", "DIV", "MOD"}] >>

operandOf(level) ==
    IF level = Len(binaryOperators) THEN "parseExponentiation"
    ELSE binaryOperators[level + 1].name

RECURSIVE parseBinaryLevels(_, _, _)

\* The function of a level begins by calling the function of the next level,
\* and so on down to parseExponentiation, before any of them reads a token;
\* their loops then run innermost first on what parseExponentiation returned.
\* parseBinaryLevels(left, level, outermost) runs the loops of the levels from
\* level out to outermost on left.
parseBinaryLevels(left, level, outermost) ==
    IF left.b.spin \/ level < outermost THEN left
    ELSE parseBinaryLevels(
             parseBinaryLoop(left, binaryOperators[level].operators,
                             operandOf(level)),
             level - 1, outermost)

parseMultiplicative(b) == parseBinaryLevels(parseExponentiation(b), 10, 10)

parseAdditive(b) == parseBinaryLevels(parseExponentiation(b), 10, 9)

parseShift(b) == parseBinaryLevels(parseExponentiation(b), 10, 8)

parseBitwiseAnd(b) == parseBinaryLevels(parseExponentiation(b), 10, 7)

parseBitwiseXor(b) == parseBinaryLevels(parseExponentiation(b), 10, 6)

parseBitwiseOr(b) == parseBinaryLevels(parseExponentiation(b), 10, 5)

parseRelational(b) == parseBinaryLevels(parseExponentiation(b), 10, 4)

parseEquality(b) == parseBinaryLevels(parseExponentiation(b), 10, 3)

parseLogicalAnd(b) == parseBinaryLevels(parseExponentiation(b), 10, 2)

parseLogicalOr(b) == parseBinaryLevels(parseExponentiation(b), 10, 1)

parseTernary(b) ==
    LET conditional(condition, trueExpr, falseExpr) ==
            IF falseExpr.b.spin THEN Spun(falseExpr.b)
            ELSE R(falseExpr.b,
                   [Type |-> "Conditional", Loc |-> Nil, Range |-> Nil,
                    Condition |-> condition.node,
                    TrueExpression |-> trueExpr.node,
                    FalseExpression |-> falseExpr.node])
        branches(condition, trueExpr) ==
            IF trueExpr.b.spin THEN Spun(trueExpr.b)
            ELSE conditional(condition, trueExpr,
                             Call("parseTernary", expect(trueExpr.b, "COLON").b))
        rest(condition) ==
            IF condition.b.spin \/ ~check(condition.b, "QUESTION") THEN condition
            ELSE branches(condition,
                          Call("parseExpression", advance(condition.b).b))
    IN  rest(parseLogicalOr(b))

parseAssignment(b) ==
    LET operation(left, op, right) ==
            IF right.b.spin THEN Spun(right.b)
            ELSE R(right.b, BinaryOperation(op.tok.Value, left.node, right.node))
        rest(left) ==
            IF left.b.spin \/ ~isAssignmentOperator(left.b) THEN left
            ELSE operation(left, advance(left.b),
                           Call("parseAssignment", advance(left.b).b))
    IN  rest(parseTernary(b))

parseExpression(b) == parseAssignment(b)

RECURSIVE parseExpressionListLoop(_, _)

parseExpressionListLoop(b, exprs) ==
    IF b.spin \/ ~check(b, "COMMA") THEN RL(b, exprs)
    ELSE LET next(expr) ==
        IF expr.b.spin THEN Spun(expr.b)
        ELSE parseExpressionListLoop(expr.b, Append(exprs, expr.node))
                  element(b1) ==
                      IF check(b1, "RPAREN") \/ check(b1, "RBRACK") \/ check(b1, "RBRACE")
                      THEN RL(b1, exprs)
                      ELSE next(Call("parseExpression", b1))
              IN  element(advance(b).b)

parseExpressionList(b) ==
    LET rest(expr) ==
            IF expr.b.spin THEN Spun(expr.b)
            ELSE parseExpressionListLoop(expr.b, <<expr.node>>)
    IN  IF check(b, "RPAREN") \/ check(b, "RBRACK") \/ check(b, "RBRACE")
        THEN RL(b, <<>>)
        ELSE rest(Call("parseExpression", b))

(***************************************************************************)
(* internal/builder/types.go                                               *)
(***************************************************************************)
RECURSIVE parseArrayDimensions(_)

\* The loop over "[" length? "]" of parseTypeName.
parseArrayDimensions(typeName) ==
    IF typeName.b.spin \/ ~check(typeName.b, "LBRACK") THEN typeName
    ELSE LET length(b1) ==
                 IF ~check(b1, "RBRACK") THEN Call("parseExpression", b1)
                 ELSE R(b1, Nil)
             array(len) ==
                 R(expect(len.b, "RBRACK").b,
                   [Type |-> "ArrayTypeName", Loc |-> Nil, Range |-> Nil,
                    BaseTypeName |-> typeName.node, Length |-> len.node])
         IN  parseArrayDimensions(array(length(advance(typeName.b).b)))

RECURSIVE parseNamePath(_, _)

\* The loop over "." IDENTIFIER of parseUserDefinedTypeName.
parseNamePath(b, parts) ==
    IF ~check(b, "PERIOD") THEN RL(b, parts)
    ELSE LET next(partTok) ==
                 parseNamePath(partTok.b, Append(parts, partTok.tok.Value))
         IN  next(expect(advance(b).b, "IDENTIFIER"))

parseUserDefinedTypeName(b) ==
    LET typeName(l) ==
            Located(l.b, [Type |-> "UserDefinedTypeName", Loc |-> Nil,
                          Range |-> Nil, NamePath |-> Join(l.list, <<".">>)],
                    peek(b))
        path(nameTok) == parseNamePath(nameTok.b, <<nameTok.tok.Value>>)
    IN  typeName(path(expect(b, "IDENTIFIER")))

parseElementaryTypeName(b) ==
    LET typeName(startTok, b0) ==
            IF startTok.Type = "ADDRESS" /\ check(b0, "PAYABLE")
            THEN Located(advance(b0).b,
                         ElementaryTypeName(startTok.Value,
                                            <<"p","a","y","a","b","l","e">>),
                         startTok)
            ELSE Located(b0, ElementaryTypeName(startTok.Value, <<>>), startTok)
    IN  typeName(advance(b).tok, advance(b).b)

\* An optional name after a mapping's key or value type.
parseMappingName(b) ==
    IF check(b, "IDENTIFIER")
    THEN R(advance(b).b, Identifier(advance(b).tok.Value))
    ELSE R(b, Nil)

parseMappingType(b) ==
    LET mapping(keyType, keyName, valueType, valueName) ==
            IF valueName.b.spin THEN Spun(valueName.b)
            ELSE Located(expect(valueName.b, "RPAREN").b,
                         [Type |-> "Mapping", Loc |-> Nil, Range |-> Nil,
                          KeyType |-> keyType.node, KeyName |-> keyName.node,
                          ValueType |-> valueType.node,
                          ValueName |-> valueName.node],
                         advance(b).tok)
        value(keyType, keyName, valueType) ==
            IF valueType.b.spin THEN valueType
            ELSE mapping(keyType, keyName, valueType,
                         parseMappingName(valueType.b))
        key(keyType, keyName) ==
            IF keyName.b.spin THEN Spun(keyName.b)
            ELSE value(keyType, keyName,
                       Call("parseTypeName", expect(keyName.b, "ARROW").b))
        keyed(keyType) == key(keyType, parseMappingName(keyType.b))
        keyTypeName(b1) ==
            IF isElementaryTypeName(b1) THEN Call("parseElementaryTypeName", b1)
            ELSE Call("parseUserDefinedTypeName", b1)
    IN  keyed(keyTypeName(expect(advance(b).b, "LPAREN").b))

RECURSIVE parseFunctionTypeModifiers(_, _)

\* The loop over visibility and state mutability of parseFunctionTypeName.
parseFunctionTypeModifiers(b, node) ==
    CASE check(b, "INTERNAL") ->
            parseFunctionTypeModifiers(advance(b).b,
                [node EXCEPT !.Visibility = <<"i","n","t","e","r","n","a","l">>])
      [] check(b, "EXTERNAL") ->
            parseFunctionTypeModifiers(advance(b).b,
                [node EXCEPT !.Visibility = <<"e","x","t","e","r","n","a","l">>])
      [] check(b, "PURE") ->
            parseFunctionTypeModifiers(advance(b).b,
                [node EXCEPT !.StateMutability = <<"p","u","r","e">>])
      [] check(b, "VIEW") ->
            parseFunctionTypeModifiers(advance(b).b,
                [node EXCEPT !.StateMutability = <<"v","i","e","w">>])
      [] check(b, "PAYABLE") ->
            parseFunctionTypeModifiers(advance(b).b,
                [node EXCEPT !.StateMutability = <<"p","a","y","a","b","l","e">>])
      [] OTHER -> R(b, node)

parseFunctionTypeName(b) ==
    LET typeName(mods, returns) ==
            IF returns.b.spin THEN Spun(returns.b)
            ELSE Located(returns.b, [mods.node EXCEPT !.ReturnTypes = returns.list],
                         advance(b).tok)
        returnTypes(mods) ==
            IF mods.b.spin THEN Spun(mods.b)
            ELSE typeName(mods, IF check(mods.b, "RETURNS")
                                THEN Call("parseParameterList", advance(mods.b).b)
                                ELSE RL(mods.b, <<>>))
        modifiers(params) ==
            IF params.b.spin THEN Spun(params.b)
            ELSE returnTypes(parseFunctionTypeModifiers(params.b,
                     [Type |-> "FunctionTypeName", Loc |-> Nil, Range |-> Nil,
                      ParameterTypes |-> params.list, ReturnTypes |-> <<>>,
                      Visibility |-> <<>>, StateMutability |-> <<>>]))
    IN  modifiers(Call("parseParameterList", advance(b).b))

parseTypeName(b) ==
    LET located(typeName) ==
            IF typeName.b.spin THEN Spun(typeName.b)
            ELSE Located(typeName.b, typeName.node, peek(b))
    IN  located(parseArrayDimensions(
            CASE check(b, "FUNCTION") -> parseFunctionTypeName(b)
              [] check(b, "MAPPING") -> parseMappingType(b)
              [] isElementaryTypeName(b) -> Call("parseElementaryTypeName", b)
              [] OTHER -> Call("parseUserDefinedTypeName", b)))

VariableDeclaration(typeName) ==
    [Type |-> "VariableDeclaration", Loc |-> Nil, Range |-> Nil,
     TypeName |-> typeName, Name |-> <<>>, Identifier |-> Nil,
     StorageLocation |-> <<>>, IsStateVar |-> FALSE, IsIndexed |-> FALSE,
     IsImmutable |-> FALSE, Override |-> <<>>, Visibility |-> <<>>,
     IsDeclaredConst |-> FALSE, Expression |-> Nil]

\* The optional storage location and the optional name that follow the type
\* in parseParameter and parseVariableDeclaration.
parseStorageAndName(b, node) ==
    LET name(b1, node1) ==
            IF check(b1, "IDENTIFIER") \/ isContextualKeyword(b1)
            THEN R(advance(b1).b,
                   [node1 EXCEPT !.Name = advance(b1).tok.Value,
                                 !.Identifier = Identifier(advance(b1).tok.Value)])
            ELSE R(b1, node1)
    IN  IF check(b, "MEMORY") \/ check(b, "STORAGE") \/ check(b, "CALLDATA")
        THEN name(advance(b).b,
                  [node EXCEPT !.StorageLocation = advance(b).tok.Value])
        ELSE name(b, node)

parseParameter(b) ==
    LET located(named) ==
            IF named.b.spin THEN Spun(named.b)
            ELSE Located(named.b, named.node, peek(b))
        declaration(typeName) ==
            IF typeName.b.spin THEN typeName
            ELSE located(parseStorageAndName(typeName.b,
                                             VariableDeclaration(typeName.node)))
    IN  declaration(Call("parseTypeName", b))

parseVariableDeclaration(b) ==
    LET located(named) ==
            IF named.b.spin THEN Spun(named.b)
            ELSE Located(named.b, named.node, peek(b))
        declaration(typeName) ==
            IF typeName.b.spin THEN typeName
            ELSE located(parseStorageAndName(typeName.b,
                                             VariableDeclaration(typeName.node)))
    IN  declaration(Call("parseTypeName", b))

RECURSIVE parseParameterListLoop(_, _)

parseParameterListLoop(b, params) ==
    IF b.spin \/ ~(~check(b, "RPAREN") /\ ~isAtEnd(b)) THEN RL(b, params)
    ELSE LET comma(b1) == IF ~check(b1, "RPAREN") THEN expect(b1, "COMMA").b
                          ELSE b1
             next(param) ==
                 IF param.b.spin THEN Spun(param.b)
                 ELSE parseParameterListLoop(Iterated(b, comma(param.b)),
                                             Append(params, param.node))
         IN  next(parseParameter(b))

parseParameterList(b) ==
    LET closed(l) ==
            IF l.b.spin THEN Spun(l.b)
            ELSE RL(expect(l.b, "RPAREN").b, l.list)
    IN  closed(parseParameterListLoop(expect(b, "LPAREN").b, <<>>))

(***************************************************************************)
(* internal/builder/builder.go and declarations.go: directives, contracts  *)
(* and functions.                                                          *)
(***************************************************************************)
RECURSIVE parsePragmaValue(_, _)

\* The loop of parsePragmaDirective that collects the lexemes up to ";".
parsePragmaValue(b, valueParts) ==
    IF ~check(b, "SEMICOLON") /\ ~isAtEnd(b)
    THEN parsePragmaValue(advance(b).b, Append(valueParts, advance(b).tok.Value))
    ELSE RL(b, valueParts)

parsePragmaDirective(b) ==
    LET directive(nameTok, l, endTok) ==
            R(endTok.b,
              setLocation([Type |-> "PragmaDirective", Loc |-> Nil, Range |-> Nil,
                           Name |-> nameTok.tok.Value,
                           Value |-> Join(l.list, <<" ">>)],
                          advance(b).tok, endTok.tok))
        value(nameTok, l) ==
            IF l.b.spin THEN Spun(l.b)
            ELSE directive(nameTok, l, expect(l.b, "SEMICOLON"))
        name(nameTok) == value(nameTok, parsePragmaValue(nameTok.b, <<>>))
    IN  name(advance(advance(b).b))

RECURSIVE parseImportSymbols(_, _)

\* The loop over "sym" or "sym as alias" inside "import { ... }".
parseImportSymbols(b, symbolAliases) ==
    IF b.spin \/ ~(~check(b, "RBRACE") /\ ~isAtEnd(b)) THEN RL(b, symbolAliases)
    ELSE LET comma(b1) == IF ~check(b1, "RBRACE") THEN expect(b1, "COMMA").b
                          ELSE b1
             next(b1, sym) ==
                 parseImportSymbols(Iterated(b, comma(b1)),
                                    Append(symbolAliases, sym))
             alias(symTok, aliasTok) ==
                 next(aliasTok.b, [Symbol |-> symTok.tok.Value,
                                   Alias  |-> aliasTok.tok.Value])
             symbol(symTok) ==
                 IF check(symTok.b, "AS")
                 THEN alias(symTok, expect(advance(symTok.b).b, "IDENTIFIER"))
                 ELSE next(symTok.b, [Symbol |-> symTok.tok.Value,
                                      Alias  |-> <<>>])
         IN  symbol(expect(b, "IDENTIFIER"))

\* expectKeyword("from") followed by expect(STRING): the path of an import.
parseImportFrom(b) == expect(expectKeyword(b, <<"f","r","o","m">>).b, "STRING")

parseImportDirective(b) ==
    LET node == [Type |-> "ImportDirective", Loc |-> Nil, Range |-> Nil,
                 Path |-> <<>>, UnitAlias |-> <<>>, SymbolAliases |-> <<>>]
        path(node1, pathTok) ==
            IF pathTok.b.spin THEN Spun(pathTok.b)
            ELSE R(pathTok.b, [node1 EXCEPT !.Path = pathTok.tok.Value])
        aliased(pathTok, aliasTok) ==
            R(aliasTok.b, [node EXCEPT !.Path = pathTok.tok.Value,
                                       !.UnitAlias = aliasTok.tok.Value])
        string(pathTok) ==
            IF check(pathTok.b, "AS")
            THEN aliased(pathTok, expect(advance(pathTok.b).b, "IDENTIFIER"))
            ELSE R(pathTok.b, [node EXCEPT !.Path = pathTok.tok.Value])
        unit(aliasTok) ==
            path([node EXCEPT !.UnitAlias = aliasTok.tok.Value],
                 parseImportFrom(aliasTok.b))
        symbols(l) ==
            IF l.b.spin THEN Spun(l.b)
            ELSE path([node EXCEPT !.SymbolAliases = l.list],
                      parseImportFrom(expect(l.b, "RBRACE").b))
        body(b0) ==
            CASE check(b0, "STRING") -> string(advance(b0))
              [] check(b0, "MUL") \/ check(b0, "IDENTIFIER") ->
                    unit(IF check(b0, "MUL")
                         THEN expect(expect(advance(b0).b, "AS").b, "IDENTIFIER")
                         ELSE advance(b0))
              [] check(b0, "LBRACE") ->
                    symbols(parseImportSymbols(advance(b0).b, <<>>))
              [] OTHER -> R(b0, node)
        located(imported, endTok) ==
            R(endTok.b, setLocation(imported.node, advance(b).tok, endTok.tok))
        end(imported) == located(imported, expect(imported.b, "SEMICOLON"))
    IN  end(body(advance(b).b))

parseInheritanceSpecifier(b) ==
    LET specifier(baseName, args) ==
            IF args.b.spin THEN Spun(args.b)
            ELSE Located(args.b,
                         [Type |-> "InheritanceSpecifier", Loc |-> Nil, Range |-> Nil,
                          BaseName |-> baseName.node, Arguments |-> args.list],
                         peek(b))
        closed(l) ==
            IF l.b.spin THEN Spun(l.b)
            ELSE RL(expect(l.b, "RPAREN").b, l.list)
        arguments(baseName) ==
            IF baseName.b.spin THEN Spun(baseName.b)
            ELSE specifier(baseName,
                           IF check(baseName.b, "LPAREN")
                           THEN closed(Call("parseExpressionList",
                                            advance(baseName.b).b))
                           ELSE RL(baseName.b, <<>>))
    IN  arguments(Call("parseUserDefinedTypeName", b))

RECURSIVE parseBaseContracts(_, _)

\* The loop over the comma-separated bases after "is".
parseBaseContracts(b, baseContracts) ==
    LET next(base) ==
            IF base.b.spin \/ ~check(base.b, "COMMA")
            THEN RL(base.b, Append(baseContracts, base.node))
            ELSE parseBaseContracts(advance(base.b).b,
                                    Append(baseContracts, base.node))
    IN  next(parseInheritanceSpecifier(b))

RECURSIVE parseOverrideList(_, _)

\* The loop over the type names inside "override( ... )".
parseOverrideList(b, override) ==
    IF b.spin \/ ~(~check(b, "RPAREN") /\ ~isAtEnd(b)) THEN RL(b, override)
    ELSE LET comma(b1) == IF ~check(b1, "RPAREN") THEN expect(b1, "COMMA").b
                          ELSE b1
             next(typeName) ==
                 IF typeName.b.spin THEN Spun(typeName.b)
                 ELSE parseOverrideList(Iterated(b, comma(typeName.b)),
                                        Append(override, typeName.node))
         IN  next(Call("parseUserDefinedTypeName", b))

\* What follows a consumed "override": an optional parenthesised list,
\* appended to the Override slice.
parseOverrideSpecifier(b, override) ==
    LET closed(l) ==
            IF l.b.spin THEN Spun(l.b)
            ELSE RL(expect(l.b, "RPAREN").b, l.list)
    IN  IF check(b, "LPAREN")
        THEN closed(parseOverrideList(advance(b).b, override))
        ELSE RL(b, override)

parseModifierInvocation(b) ==
    LET invocation(args) ==
            IF args.b.spin THEN Spun(args.b)
            ELSE Located(args.b,
                         [Type |-> "ModifierInvocation", Loc |-> Nil, Range |-> Nil,
                          Name |-> advance(b).tok.Value, Arguments |-> args.list],
                         advance(b).tok)
        closed(l) ==
            IF l.b.spin THEN Spun(l.b)
            ELSE RL(expect(l.b, "RPAREN").b, l.list)
        arguments(b0) ==
            invocation(IF check(b0, "LPAREN")
                       THEN closed(Call("parseExpressionList", advance(b0).b))
                       ELSE RL(b0, <<>>))
    IN  arguments(advance(b).b)

RECURSIVE parseFunctionModifiers(_, _)

parseFunctionModifiers(b, node) ==
    LET visibility(value) ==
            parseFunctionModifiers(advance(b).b, [node EXCEPT !.Visibility = value])
        stateMutability(value) ==
            parseFunctionModifiers(advance(b).b,
                                   [node EXCEPT !.StateMutability = value])
        overridden(l) ==
            IF l.b.spin THEN Spun(l.b)
            ELSE parseFunctionModifiers(l.b, [node EXCEPT !.Override = l.list])
        invoked(mod) ==
            IF mod.b.spin THEN Spun(mod.b)
            ELSE parseFunctionModifiers(mod.b,
                                        [node EXCEPT !.Modifiers = Append(@, mod.node)])
        modifier(tok) ==
            CASE tok.Type = "PUBLIC" -> visibility(<<"p","u","b","l","i","c">>)
              [] tok.Type = "PRIVATE" -> visibility(<<"p","r","i","v","a","t","e">>)
              [] tok.Type = "INTERNAL" -> visibility(<<"i","n","t","e","r","n","a","l">>)
              [] tok.Type = "EXTERNAL" -> visibility(<<"e","x","t","e","r","n","a","l">>)
              [] tok.Type = "PURE" -> stateMutability(<<"p","u","r","e">>)
              [] tok.Type = "VIEW" -> stateMutability(<<"v","i","e","w">>)
              [] tok.Type = "PAYABLE" -> stateMutability(<<"p","a","y","a","b","l","e">>)
              [] tok.Type = "VIRTUAL" ->
                    parseFunctionModifiers(advance(b).b,
                                           [node EXCEPT !.IsVirtual = TRUE])
              [] tok.Type = "OVERRIDE" ->
                    overridden(parseOverrideSpecifier(advance(b).b, node.Override))
              [] tok.Type = "IDENTIFIER" -> invoked(parseModifierInvocation(b))
              [] OTHER -> R(b, node)
    IN  IF b.spin THEN R(b, node) ELSE modifier(peek(b))

FunctionDefinition ==
    [Type |-> "FunctionDefinition", Loc |-> Nil, Range |-> Nil,
     Name |-> <<>>, Parameters |-> <<>>, ReturnParameters |-> <<>>,
     Body |-> Nil, Visibility |-> <<>>, Modifiers |-> <<>>, Override |-> <<>>,
     IsConstructor |-> FALSE, IsFallback |-> FALSE, IsReceiveEther |-> FALSE,
     IsVirtual |-> FALSE, StateMutability |-> <<>>]

\* "returns (...)" when present.
parseReturnParameters(b) ==
    IF check(b, "RETURNS") THEN Call("parseParameterList", advance(b).b)
    ELSE RL(b, <<>>)

\* A block when "{" is next, otherwise the expected ";".
parseBodyOrSemicolon(b) ==
    IF check(b, "LBRACE") THEN Call("parseBlock", b)
    ELSE R(expect(b, "SEMICOLON").b, Nil)

parseFunctionDefinition(b) ==
    LET definition(mods, returns, body) ==
            IF body.b.spin THEN Spun(body.b)
            ELSE Located(body.b,
                         [mods.node EXCEPT !.ReturnParameters = returns.list,
                                           !.Body = body.node],
                         advance(b).tok)
        body(mods, returns) ==
            IF returns.b.spin THEN Spun(returns.b)
            ELSE definition(mods, returns, parseBodyOrSemicolon(returns.b))
        returns(mods) ==
            IF mods.b.spin THEN Spun(mods.b)
            ELSE body(mods, parseReturnParameters(mods.b))
        modifiers(node, params) ==
            IF params.b.spin THEN Spun(params.b)
            ELSE returns(parseFunctionModifiers(params.b,
                             [node EXCEPT !.Parameters = params.list]))
        named(nameTok) ==
            [FunctionDefinition EXCEPT
                !.Name = nameTok.tok.Value,
                !.IsFallback = (nameTok.tok.Type = "FALLBACK"),
                !.IsReceiveEther = (nameTok.tok.Type = "RECEIVE")]
        name(b0, hasName) ==
            modifiers(IF hasName THEN named(advance(b0)) ELSE FunctionDefinition,
                      Call("parseParameterList",
                           IF hasName THEN advance(b0).b ELSE b0))
        function(b0) ==
            name(b0, check(b0, "IDENTIFIER") \/ check(b0, "FALLBACK")
                         \/ check(b0, "RECEIVE"))
    IN  function(advance(b).b)

parseConstructorDefinition(b) ==
    LET definition(mods, body) ==
            IF body.b.spin THEN Spun(body.b)
            ELSE Located(body.b, [mods.node EXCEPT !.Body = body.node], advance(b).tok)
        body(mods) ==
            IF mods.b.spin THEN Spun(mods.b)
            ELSE definition(mods, Call("parseBlock", mods.b))
        modifiers(params) ==
            IF params.b.spin THEN Spun(params.b)
            ELSE body(parseFunctionModifiers(params.b,
                          [FunctionDefinition EXCEPT !.IsConstructor = TRUE,
                                                     !.Parameters = params.list]))
    IN  modifiers(Call("parseParameterList", advance(b).b))

parseFallbackDefinition(b) ==
    LET definition(mods, returns, body) ==
            IF body.b.spin THEN Spun(body.b)
            ELSE Located(body.b,
                         [mods.node EXCEPT !.ReturnParameters = returns.list,
                                           !.Body = body.node],
                         advance(b).tok)
        body(mods, returns) ==
            IF returns.b.spin THEN Spun(returns.b)
            ELSE definition(mods, returns, parseBodyOrSemicolon(returns.b))
        returns(mods) ==
            IF mods.b.spin THEN Spun(mods.b)
            ELSE body(mods, parseReturnParameters(mods.b))
        modifiers(params) ==
            IF params.b.spin THEN Spun(params.b)
            ELSE returns(parseFunctionModifiers(params.b,
                             [FunctionDefinition EXCEPT !.IsFallback = TRUE,
                                                        !.Parameters = params.list]))
    IN  modifiers(Call("parseParameterList", advance(b).b))

\* parseReceiveDefinition starting from the node of parseFallbackDefinition.
parseReceiveDefinitionOnFallback(b) ==
    LET definition(mods, body) ==
            IF body.b.spin THEN Spun(body.b)
            ELSE Located(body.b, [mods.node EXCEPT !.Body = body.node], advance(b).tok)
        body(mods) ==
            IF mods.b.spin THEN Spun(mods.b)
            ELSE definition(mods, parseBodyOrSemicolon(mods.b))
        modifiers(params) ==
            IF params.b.spin THEN Spun(params.b)
            ELSE body(parseFunctionModifiers(params.b,
                          [FunctionDefinition EXCEPT !.IsFallback = TRUE,
                                                     !.IsReceiveEther = TRUE,
                                                     !.Parameters = params.list]))
    IN  modifiers(Call("parseParameterList", advance(b).b))

parseReceiveDefinition(b) ==
    LET definition(mods, body) ==
            IF body.b.spin THEN Spun(body.b)
            ELSE Located(body.b, [mods.node EXCEPT !.Body = body.node], advance(b).tok)
        body(mods) ==
            IF mods.b.spin THEN Spun(mods.b)
            ELSE definition(mods, parseBodyOrSemicolon(mods.b))
        modifiers(params) ==
            IF params.b.spin THEN Spun(params.b)
            ELSE body(parseFunctionModifiers(params.b,
                          [FunctionDefinition EXCEPT !.IsReceiveEther = TRUE,
                                                     !.Parameters = params.list]))
    IN  modifiers(Call("parseParameterList", advance(b).b))

RECURSIVE parseModifierSpecifiers(_, _)

\* The loop over virtual / override of parseModifierDefinition.
parseModifierSpecifiers(b, node) ==
    LET overridden(l) ==
            IF l.b.spin THEN Spun(l.b)
            ELSE parseModifierSpecifiers(l.b, [node EXCEPT !.Override = l.list])
    IN  IF check(b, "VIRTUAL")
        THEN parseModifierSpecifiers(advance(b).b, [node EXCEPT !.IsVirtual = TRUE])
        ELSE IF check(b, "OVERRIDE")
        THEN overridden(parseOverrideSpecifier(advance(b).b, node.Override))
        ELSE R(b, node)

parseModifierDefinition(b) ==
    LET definition(specs, body) ==
            IF body.b.spin THEN Spun(body.b)
            ELSE Located(body.b, [specs.node EXCEPT !.Body = body.node], advance(b).tok)
        body(specs) ==
            IF specs.b.spin THEN Spun(specs.b)
            ELSE definition(specs, parseBodyOrSemicolon(specs.b))
        specifiers(nameTok, params) ==
            IF params.b.spin THEN Spun(params.b)
            ELSE body(parseModifierSpecifiers(params.b,
                          [Type |-> "ModifierDefinition", Loc |-> Nil, Range |-> Nil,
                           Name |-> nameTok.tok.Value, Parameters |-> params.list,
                           Body |-> Nil, IsVirtual |-> FALSE, Override |-> <<>>]))
        parameters(nameTok) ==
            specifiers(nameTok, IF check(nameTok.b, "LPAREN")
                                THEN Call("parseParameterList", nameTok.b)
                                ELSE RL(nameTok.b, <<>>))
    IN  parameters(expect(advance(b).b, "IDENTIFIER"))

RECURSIVE parseStateVariableModifiers(_, _)

\* The loop over the modifiers of parseStateVariableDeclaration.
parseStateVariableModifiers(b, varDecl) ==
    LET overridden(l) ==
            IF l.b.spin THEN Spun(l.b)
            ELSE parseStateVariableModifiers(l.b, [varDecl EXCEPT !.Override = l.list])
    IN  CASE check(b, "PUBLIC") ->
                parseStateVariableModifiers(advance(b).b,
                    [varDecl EXCEPT !.Visibility = <<"p","u","b","l","i","c">>])
          [] check(b, "PRIVATE") ->
                parseStateVariableModifiers(advance(b).b,
                    [varDecl EXCEPT !.Visibility = <<"p","r","i","v","a","t","e">>])
          [] check(b, "INTERNAL") ->
                parseStateVariableModifiers(advance(b).b,
                    [varDecl EXCEPT !.Visibility = <<"i","n","t","e","r","n","a","l">>])
          [] check(b, "CONSTANT") ->
                parseStateVariableModifiers(advance(b).b,
                    [varDecl EXCEPT !.IsDeclaredConst = TRUE])
          [] check(b, "IMMUTABLE") ->
                parseStateVariableModifiers(advance(b).b,
                    [varDecl EXCEPT !.IsImmutable = TRUE])
          [] check(b, "TRANSIENT") ->
                parseStateVariableModifiers(advance(b).b,
                    [varDecl EXCEPT !.StorageLocation = <<"t","r","a","n","s","i","e","n","t">>])
          [] check(b, "OVERRIDE") ->
                overridden(parseOverrideSpecifier(advance(b).b, varDecl.Override))
          [] OTHER -> R(b, varDecl)

\* varDecl is a pointer shared with node.Variables, so the location set on it
\* last shows in the declaration's only variable.
parseStateVariableDeclaration(b) ==
    LET declaration(varDecl, init, endTok) ==
            R(endTok.b,
              setLocation([Type |-> "StateVariableDeclaration", Loc |-> Nil,
                           Range |-> Nil,
                           Variables |-> <<setLocation(varDecl, peek(b), endTok.tok)>>,
                           InitialValue |-> init.node],
                          peek(b), endTok.tok))
        ended(varDecl, init) ==
            IF init.b.spin THEN Spun(init.b)
            ELSE declaration(varDecl, init, expect(init.b, "SEMICOLON"))
        initial(varDecl, b1) ==
            ended(varDecl, IF check(b1, "ASSIGN")
                           THEN Call("parseExpression", advance(b1).b)
                           ELSE R(b1, Nil))
        named(mods, nameTok) ==
            initial([mods.node EXCEPT !.Name = nameTok.tok.Value,
                                      !.Identifier = Identifier(nameTok.tok.Value)],
                    nameTok.b)
        modified(mods) ==
            IF mods.b.spin THEN Spun(mods.b)
            ELSE named(mods, expect(mods.b, "IDENTIFIER"))
        modifiers(typeName) ==
            IF typeName.b.spin THEN Spun(typeName.b)
            ELSE modified(parseStateVariableModifiers(typeName.b,
                              [VariableDeclaration(typeName.node) EXCEPT
                                  !.IsStateVar = TRUE]))
    IN  modifiers(Call("parseTypeName", b))

parseConstantVariableDeclaration(b) ==
    Call("parseStateVariableDeclaration", b)

RECURSIVE parseStructMembers(_, _)

parseStructMembers(b, members) ==
    IF b.spin \/ ~(~check(b, "RBRACE") /\ ~isAtEnd(b)) THEN RL(b, members)
    ELSE LET next(typeName, memberNameTok) ==
                 parseStructMembers(
                     Iterated(b, expect(memberNameTok.b, "SEMICOLON").b),
                     Append(members,
                            [VariableDeclaration(typeName.node) EXCEPT
                                !.Name = memberNameTok.tok.Value,
                                !.Identifier = Identifier(memberNameTok.tok.Value)]))
             member(typeName) ==
                 IF typeName.b.spin THEN Spun(typeName.b)
                 ELSE next(typeName, expect(typeName.b, "IDENTIFIER"))
         IN  member(Call("parseTypeName", b))

parseStructDefinition(b) ==
    LET definition(nameTok, l, endTok) ==
            R(endTok.b,
              setLocation([Type |-> "StructDefinition", Loc |-> Nil, Range |-> Nil,
                           Name |-> nameTok.tok.Value, Members |-> l.list],
                          advance(b).tok, endTok.tok))
        members(nameTok, l) ==
            IF l.b.spin THEN Spun(l.b)
            ELSE definition(nameTok, l, expect(l.b, "RBRACE"))
        name(nameTok) ==
            members(nameTok, parseStructMembers(expect(nameTok.b, "LBRACE").b, <<>>))
    IN  name(expect(advance(b).b, "IDENTIFIER"))

RECURSIVE parseEnumMembers(_, _)

parseEnumMembers(b, members) ==
    IF b.spin \/ ~(~check(b, "RBRACE") /\ ~isAtEnd(b)) THEN RL(b, members)
    ELSE LET comma(b1) == IF ~check(b1, "RBRACE") THEN expect(b1, "COMMA").b
                          ELSE b1
             next(valueTok) ==
                 parseEnumMembers(Iterated(b, comma(valueTok.b)),
                     Append(members, [Type |-> "EnumValue", Loc |-> Nil,
                                      Range |-> Nil, Name |-> valueTok.tok.Value]))
         IN  next(expect(b, "IDENTIFIER"))

parseEnumDefinition(b) ==
    LET definition(nameTok, l, endTok) ==
            R(endTok.b,
              setLocation([Type |-> "EnumDefinition", Loc |-> Nil, Range |-> Nil,
                           Name |-> nameTok.tok.Value, Members |-> l.list],
                          advance(b).tok, endTok.tok))
        members(nameTok, l) ==
            IF l.b.spin THEN Spun(l.b)
            ELSE definition(nameTok, l, expect(l.b, "RBRACE"))
        name(nameTok) ==
            members(nameTok, parseEnumMembers(expect(nameTok.b, "LBRACE").b, <<>>))
    IN  name(expect(advance(b).b, "IDENTIFIER"))

RECURSIVE parseEventParameters(_, _)

parseEventParameters(b, parameters) ==
    IF b.spin \/ ~(~check(b, "RPAREN") /\ ~isAtEnd(b)) THEN RL(b, parameters)
    ELSE LET separator(b2) ==
                 IF check(b2, "COMMA") THEN advance(b2).b
                 ELSE IF ~check(b2, "RPAREN") THEN advance(b2).b
                 ELSE b2
             next(b2, param) ==
                 parseEventParameters(Iterated(b, separator(b2)),
                                      Append(parameters, param))
             name(b1, param) ==
                 IF check(b1, "IDENTIFIER") \/ isContextualKeyword(b1)
                 THEN next(advance(b1).b,
                           [param EXCEPT
                               !.Name = advance(b1).tok.Value,
                               !.Identifier = Identifier(advance(b1).tok.Value)])
                 ELSE next(b1, param)
             indexed(typeName) ==
                 IF typeName.b.spin THEN Spun(typeName.b)
                 ELSE IF check(typeName.b, "INDEXED")
                 THEN name(advance(typeName.b).b,
                                [VariableDeclaration(typeName.node) EXCEPT
                                    !.IsIndexed = TRUE])
                 ELSE name(typeName.b, VariableDeclaration(typeName.node))
         IN  indexed(Call("parseTypeName", b))

parseEventDefinition(b) ==
    LET definition(nameTok, l, anonymous, endTok) ==
            R(endTok.b,
              setLocation([Type |-> "EventDefinition", Loc |-> Nil, Range |-> Nil,
                           Name |-> nameTok.tok.Value, Parameters |-> l.list,
                           IsAnonymous |-> anonymous],
                          advance(b).tok, endTok.tok))
        anonymous(nameTok, l, b2) ==
            IF check(b2, "ANONYMOUS")
            THEN definition(nameTok, l, TRUE, expect(advance(b2).b, "SEMICOLON"))
            ELSE definition(nameTok, l, FALSE, expect(b2, "SEMICOLON"))
        parameters(nameTok, l) ==
            IF l.b.spin THEN Spun(l.b)
            ELSE anonymous(nameTok, l, expect(l.b, "RPAREN").b)
        name(nameTok) ==
            parameters(nameTok,
                       parseEventParameters(expect(nameTok.b, "LPAREN").b, <<>>))
    IN  name(expect(advance(b).b, "IDENTIFIER"))

RECURSIVE parseErrorParameters(_, _)

parseErrorParameters(b, parameters) ==
    IF b.spin \/ ~(~check(b, "RPAREN") /\ ~isAtEnd(b)) THEN RL(b, parameters)
    ELSE LET comma(b2) == IF ~check(b2, "RPAREN") THEN expect(b2, "COMMA").b
                          ELSE b2
             next(b2, param) ==
                 parseErrorParameters(Iterated(b, comma(b2)),
                                      Append(parameters, param))
             name(typeName) ==
                 IF typeName.b.spin THEN Spun(typeName.b)
                 ELSE IF check(typeName.b, "IDENTIFIER")
                 THEN next(advance(typeName.b).b,
                                [VariableDeclaration(typeName.node) EXCEPT
                                    !.Name = advance(typeName.b).tok.Value,
                                    !.Identifier =
                                        Identifier(advance(typeName.b).tok.Value)])
                 ELSE next(typeName.b, VariableDeclaration(typeName.node))
         IN  name(Call("parseTypeName", b))

parseErrorDefinition(b) ==
    LET definition(nameTok, l, endTok) ==
            R(endTok.b,
              setLocation([Type |-> "ErrorDefinition", Loc |-> Nil, Range |-> Nil,
                           Name |-> nameTok.tok.Value, Parameters |-> l.list],
                          advance(b).tok, endTok.tok))
        parameters(nameTok, l) ==
            IF l.b.spin THEN Spun(l.b)
            ELSE definition(nameTok, l,
                            expect(expect(l.b, "RPAREN").b, "SEMICOLON"))
        name(nameTok) ==
            parameters(nameTok,
                       parseErrorParameters(expect(nameTok.b, "LPAREN").b, <<>>))
    IN  name(expect(advance(b).b, "IDENTIFIER"))

RECURSIVE parseUsingFunctions(_, _, _)

\* The loop over "func" or "func as op" inside "using { ... }".
parseUsingFunctions(b, functions, operators) ==
    IF b.spin \/ ~(~check(b, "RBRACE") /\ ~isAtEnd(b))
    THEN [functions |-> functions, operators |-> operators, b |-> b]
    ELSE LET comma(b1) == IF ~check(b1, "RBRACE") THEN expect(b1, "COMMA").b
                          ELSE b1
             operator(funcTok, opTok) ==
                 parseUsingFunctions(Iterated(b, comma(opTok.b)),
                                     Append(functions, funcTok.tok.Value),
                                     Append(operators, opTok.tok.Value))
             function(funcTok) ==
                 IF check(funcTok.b, "AS")
                 THEN operator(funcTok, advance(advance(funcTok.b).b))
                 ELSE parseUsingFunctions(Iterated(b, comma(funcTok.b)),
                                          Append(functions, funcTok.tok.Value),
                                          operators)
         IN  function(expect(b, "IDENTIFIER"))

parseUsingDirective(b) ==
    LET node == [Type |-> "UsingForDeclaration", Loc |-> Nil, Range |-> Nil,
                 TypeName |-> Nil, Functions |-> <<>>, Operators |-> <<>>,
                 LibraryName |-> <<>>, IsGlobal |-> FALSE]
        directive(typed, isGlobal, endTok) ==
            R(endTok.b,
              setLocation([typed.node EXCEPT !.IsGlobal = isGlobal],
                          advance(b).tok, endTok.tok))
        global(typed, isGlobal) ==
            directive(typed, isGlobal,
                      expect(IF isGlobal THEN advance(typed.b).b ELSE typed.b,
                             "SEMICOLON"))
        typed(head, typeName) ==
            IF typeName.b.spin THEN Spun(typeName.b)
            ELSE R(typeName.b, [head.node EXCEPT !.TypeName = typeName.node])
        for(head, b1) ==
            IF check(b1, "MUL") THEN R(advance(b1).b, head.node)
            ELSE typed(head, Call("parseTypeName", b1))
        functions(l) ==
            IF l.b.spin THEN Spun(l.b)
            ELSE R(expect(l.b, "RBRACE").b,
                   [node EXCEPT !.Functions = l.functions,
                                !.Operators = l.operators])
        library(libName) ==
            IF libName.b.spin THEN Spun(libName.b)
            ELSE R(libName.b, [node EXCEPT !.LibraryName = libName.node.NamePath])
        head(b0) ==
            IF check(b0, "LBRACE")
            THEN functions(parseUsingFunctions(advance(b0).b, <<>>, <<>>))
            ELSE library(Call("parseUserDefinedTypeName", b0))
        using(head1) == for(head1, expectKeyword(head1.b, <<"f","o","r">>).b)
        end(typed1) == global(typed1, check(typed1.b, "GLOBAL"))
    IN  end(using(head(advance(b).b)))

parseUserDefinedValueTypeDefinition(b) ==
    LET definition(nameTok, underlyingType, endTok) ==
            R(endTok.b,
              setLocation([Type |-> "UserDefinedValueTypeDefinition",
                           Loc |-> Nil, Range |-> Nil,
                           Name |-> nameTok.tok.Value,
                           UnderlyingType |-> underlyingType.node],
                          advance(b).tok, endTok.tok))
        underlying(nameTok, underlyingType) ==
            IF underlyingType.b.spin THEN Spun(underlyingType.b)
            ELSE definition(nameTok, underlyingType,
                            expect(underlyingType.b, "SEMICOLON"))
        name(nameTok) ==
            underlying(nameTok,
                       Call("parseElementaryTypeName", expect(nameTok.b, "IS").b))
    IN  name(expect(advance(b).b, "IDENTIFIER"))

parseContractBodyElement(b) ==
    CASE peek(b).Type = "FUNCTION"    -> Call("parseFunctionDefinition", b)
      [] peek(b).Type = "CONSTRUCTOR" -> parseConstructorDefinition(b)
      [] peek(b).Type = "MODIFIER"    -> parseModifierDefinition(b)
      [] peek(b).Type = "FALLBACK"    -> parseFallbackDefinition(b)
      [] peek(b).Type = "RECEIVE"     -> parseReceiveDefinition(b)
      [] peek(b).Type = "STRUCT"      -> Call("parseStructDefinition", b)
      [] peek(b).Type = "ENUM"        -> Call("parseEnumDefinition", b)
      [] peek(b).Type = "EVENT"       -> Call("parseEventDefinition", b)
      [] peek(b).Type = "ERROR"       -> Call("parseErrorDefinition", b)
      [] peek(b).Type = "USING"       -> Call("parseUsingDirective", b)
      [] peek(b).Type = "TYPE"        ->
            Call("parseUserDefinedValueTypeDefinition", b)
      [] OTHER ->
            IF isTypeName(b) THEN Call("parseStateVariableDeclaration", b)
            ELSE R(advance(addError(b,
                       Sprintf("unexpected token in contract body: %s",
                               <<peek(b).Value>>))).b,
                   Nil)

RECURSIVE parseContractBody(_, _)

parseContractBody(b, subNodes) ==
    IF b.spin \/ ~(~check(b, "RBRACE") /\ ~isAtEnd(b)) THEN RL(b, subNodes)
    ELSE LET next(subNode) ==
                 IF subNode.b.spin THEN Spun(subNode.b)
                 ELSE parseContractBody(Iterated(b, subNode.b),
                                        appendNode(subNodes, subNode.node))
         IN  next(Call("parseContractBodyElement", b))

parseContractDefinition(b, kind) ==
    LET startTok == IF kind = <<"a","b","s","t","r","a","c","t">> THEN previous(b) ELSE advance(b).tok
        node == [Type |-> "ContractDefinition", Loc |-> Nil, Range |-> Nil,
                 Name |-> <<>>, BaseContracts |-> <<>>, SubNodes |-> <<>>,
                 Kind |-> kind]
        name(nameTok) == R(nameTok.b, [node EXCEPT !.Name = nameTok.tok.Value])
        layout(named) ==
            R(IF check(named.b, "LAYOUT")
              THEN Call("parsePrimary", expect(advance(named.b).b, "AT").b).b
              ELSE named.b,
              named.node)
        inherited(laid, bases) ==
            IF bases.b.spin THEN Spun(bases.b)
            ELSE R(bases.b, [laid.node EXCEPT !.BaseContracts = bases.list])
        inheritance(laid) ==
            inherited(laid, IF check(laid.b, "IS")
                            THEN parseBaseContracts(advance(laid.b).b, <<>>)
                            ELSE RL(laid.b, <<>>))
        subNodes(based, l) ==
            IF l.b.spin THEN Spun(l.b)
            ELSE R(l.b, [based.node EXCEPT !.SubNodes = l.list])
        body(based) ==
            subNodes(based,
                     parseContractBody(expect(based.b, "LBRACE").b, <<>>))
        located(definition, endTok) ==
            R(endTok.b, setLocation(definition.node, startTok, endTok.tok))
        end(definition) == located(definition, expect(definition.b, "RBRACE"))
    IN  end(body(inheritance(layout(name(expect(advance(b).b, "IDENTIFIER"))))))

parseSourceUnitElement(b) ==
    CASE peek(b).Type = "PRAGMA"    -> parsePragmaDirective(b)
      [] peek(b).Type = "IMPORT"    -> parseImportDirective(b)
      [] peek(b).Type = "ABSTRACT" /\ ~check(advance(b).b, "CONTRACT") ->
            R(addError(advance(b).b,
                       Sprintf("expected 'contract' after 'abstract'", <<>>)),
              Nil)
      [] peek(b).Type \in {"CONTRACT", "ABSTRACT", "INTERFACE", "LIBRARY"} ->
            parseContractDefinition(
                IF peek(b).Type = "ABSTRACT" THEN advance(b).b ELSE b,
                CASE peek(b).Type = "CONTRACT"  -> <<"c","o","n","t","r","a","c","t">>
                  [] peek(b).Type = "ABSTRACT"  -> <<"a","b","s","t","r","a","c","t">>
                  [] peek(b).Type = "INTERFACE" -> <<"i","n","t","e","r","f","a","c","e">>
                  [] peek(b).Type = "LIBRARY"   -> <<"l","i","b","r","a","r","y">>)
      [] peek(b).Type = "STRUCT"    -> Call("parseStructDefinition", b)
      [] peek(b).Type = "ENUM"      -> Call("parseEnumDefinition", b)
      [] peek(b).Type = "FUNCTION"  -> Call("parseFunctionDefinition", b)
      [] peek(b).Type = "EVENT"     -> Call("parseEventDefinition", b)
      [] peek(b).Type = "ERROR"     -> Call("parseErrorDefinition", b)
      [] peek(b).Type = "USING"     -> Call("parseUsingDirective", b)
      [] peek(b).Type = "TYPE"      ->
            Call("parseUserDefinedValueTypeDefinition", b)
      [] peek(b).Type = "EOF"       -> R(b, Nil)
      [] OTHER ->
            IF isTypeName(b) THEN parseConstantVariableDeclaration(b)
            ELSE R(advance(addError(b, Sprintf("unexpected token: %s",
                                               <<peek(b).Value>>))).b,
                   Nil)

(***************************************************************************)
(* internal/builder/statements.go                                          *)
(***************************************************************************)
RECURSIVE parseStatements(_, _)

\* The loop of parseBlock.
parseStatements(b, statements) ==
    IF b.spin \/ ~(~check(b, "RBRACE") /\ ~isAtEnd(b)) THEN RL(b, statements)
    ELSE LET next(stmt) ==
                 IF stmt.b.spin THEN Spun(stmt.b)
                 ELSE parseStatements(Iterated(b, stmt.b),
                                      appendNode(statements, stmt.node))
         IN  next(Call("parseStatement", b))

parseBlock(b) ==
    LET block(startTok, l, endTok) ==
            R(endTok.b,
              setLocation([Type |-> "Block", Loc |-> Nil, Range |-> Nil,
                           Statements |-> l.list],
                          startTok.tok, endTok.tok))
        statements(startTok, l) ==
            IF l.b.spin THEN Spun(l.b)
            ELSE block(startTok, l, expect(l.b, "RBRACE"))
        open(startTok) == statements(startTok, parseStatements(startTok.b, <<>>))
    IN  open(expect(b, "LBRACE"))

RECURSIVE skipToRBrack(_), skipArrayDimensions(_), skipTypePath(_)

\* The three lookahead loops of looksLikeVariableDeclaration.
skipToRBrack(b) ==
    IF ~check(b, "RBRACK") /\ ~isAtEnd(b) THEN skipToRBrack(advance(b).b) ELSE b

skipArrayDimensions(b) ==
    LET close(b1) == IF check(b1, "RBRACK") THEN advance(b1).b ELSE b1
    IN  IF check(b, "LBRACK")
        THEN skipArrayDimensions(close(skipToRBrack(advance(b).b)))
        ELSE b

skipTypePath(b) ==
    LET part(b1) == IF check(b1, "IDENTIFIER") THEN advance(b1).b ELSE b1
    IN  IF check(b, "PERIOD") THEN skipTypePath(part(advance(b).b)) ELSE b

\* The scan between "savedPos := b.pos" and the return: the builder as the
\* scan leaves it, before the deferred assignment runs.
looksLikeVariableDeclarationScan(b) ==
    LET location(b1) ==
            IF check(b1, "MEMORY") \/ check(b1, "STORAGE") \/ check(b1, "CALLDATA")
            THEN advance(b1).b ELSE b1
    IN  location(skipTypePath(skipArrayDimensions(advance(b).b)))

\* The deferred "b.pos = savedPos" left out of the return path.
looksLikeVariableDeclarationUnrestored(b) ==
    LET scanned == looksLikeVariableDeclarationScan(b)
    IN  IF isElementaryTypeName(b) THEN [b |-> b, yes |-> TRUE]
        ELSE IF check(b, "MAPPING") \/ check(b, "FUNCTION") THEN [b |-> b, yes |-> TRUE]
        ELSE IF ~check(b, "IDENTIFIER") THEN [b |-> b, yes |-> FALSE]
        ELSE [b |-> scanned, yes |-> check(scanned, "IDENTIFIER")]

\* The builder on return and the answer; the deferred assignment puts b.pos
\* back to savedPos.
looksLikeVariableDeclaration(b) ==
    LET savedPos == b.pos
        scanned == looksLikeVariableDeclarationScan(b)
    IN  IF isElementaryTypeName(b) THEN [b |-> b, yes |-> TRUE]
        ELSE IF check(b, "MAPPING") \/ check(b, "FUNCTION") THEN [b |-> b, yes |-> TRUE]
        ELSE IF ~check(b, "IDENTIFIER") THEN [b |-> b, yes |-> FALSE]
        ELSE [b |-> [scanned EXCEPT !.pos = savedPos],
              yes |-> check(scanned, "IDENTIFIER")]

parseExpressionStatement(b) ==
    LET statement(expr, endTok) ==
            R(endTok.b,
              setLocation([Type |-> "ExpressionStatement", Loc |-> Nil,
                           Range |-> Nil, Expression |-> expr.node],
                          peek(b), endTok.tok))
        end(expr) ==
            IF expr.b.spin THEN Spun(expr.b)
            ELSE statement(expr, expect(expr.b, "SEMICOLON"))
    IN  end(Call("parseExpression", b))

VariableDeclarationStatement(variables, initialValue) ==
    [Type |-> "VariableDeclarationStatement", Loc |-> Nil, Range |-> Nil,
     Variables |-> variables, InitialValue |-> initialValue]

\* "= expression" when present.
parseInitialValue(b) ==
    IF check(b, "ASSIGN") THEN Call("parseExpression", advance(b).b)
    ELSE R(b, Nil)

parseVariableDeclarationStatement(b) ==
    LET statement(varDecl, init, endTok) ==
            R(endTok.b,
              setLocation(VariableDeclarationStatement(<<varDecl.node>>, init.node),
                          peek(b), endTok.tok))
        end(varDecl, init) ==
            IF init.b.spin THEN Spun(init.b)
            ELSE statement(varDecl, init, expect(init.b, "SEMICOLON"))
        initial(varDecl) ==
            IF varDecl.b.spin THEN Spun(varDecl.b)
            ELSE end(varDecl, parseInitialValue(varDecl.b))
    IN  initial(parseVariableDeclaration(b))

RECURSIVE parseTupleDeclarations(_, _, _)

\* The speculative loop of parseTupleVariableDeclarationOrExpression.
parseTupleDeclarations(b, variables, hasTypes) ==
    LET result(b1, variables1, hasTypes1) ==
            [variables |-> variables1, hasTypes |-> hasTypes1, b |-> b1]
        next(varDecl) ==
            IF varDecl.b.spin THEN Spun(varDecl.b)
            ELSE IF ~check(varDecl.b, "RPAREN") /\ ~check(varDecl.b, "COMMA")
            THEN result(varDecl.b, Append(variables, varDecl.node), TRUE)
            ELSE IF check(varDecl.b, "COMMA")
            THEN parseTupleDeclarations(Iterated(b, advance(varDecl.b).b),
                                             Append(variables, varDecl.node), TRUE)
            ELSE parseTupleDeclarations(Iterated(b, varDecl.b),
                                             Append(variables, varDecl.node), TRUE)
    IN  IF b.spin \/ ~(~check(b, "RPAREN") /\ ~isAtEnd(b))
        THEN result(b, variables, hasTypes)
        ELSE IF check(b, "COMMA")
        THEN parseTupleDeclarations(advance(b).b, Append(variables, Nil), hasTypes)
        ELSE IF isTypeName(b) THEN next(parseVariableDeclaration(b))
        ELSE result(b, variables, hasTypes)

parseTupleVariableDeclarationOrExpression(b) ==
    LET statement(l, init, endTok) ==
            R(endTok.b,
              setLocation(VariableDeclarationStatement(l.variables, init.node),
                          peek(b), endTok.tok))
        end(l, init) ==
            IF init.b.spin THEN Spun(init.b)
            ELSE statement(l, init, expect(init.b, "SEMICOLON"))
        declarations(savedPos, l) ==
            IF l.b.spin THEN Spun(l.b)
            ELSE IF l.hasTypes /\ check(l.b, "RPAREN")
            THEN end(l, parseInitialValue(expect(l.b, "RPAREN").b))
            ELSE Call("parseExpressionStatement", [l.b EXCEPT !.pos = savedPos])
        open(b1) == declarations(b1.pos, parseTupleDeclarations(b1, <<>>, FALSE))
    IN  open(expect(b, "LPAREN").b)

parseIfStatement(b) ==
    LET statement(condition, trueBody, falseBody) ==
            IF falseBody.b.spin THEN Spun(falseBody.b)
            ELSE Located(falseBody.b,
                         [Type |-> "IfStatement", Loc |-> Nil, Range |-> Nil,
                          Condition |-> condition.node, TrueBody |-> trueBody.node,
                          FalseBody |-> falseBody.node],
                         advance(b).tok)
        else(condition, trueBody) ==
            IF trueBody.b.spin THEN Spun(trueBody.b)
            ELSE statement(condition, trueBody,
                           IF check(trueBody.b, "ELSE")
                           THEN Call("parseStatement", advance(trueBody.b).b)
                           ELSE R(trueBody.b, Nil))
        then(condition) ==
            IF condition.b.spin THEN Spun(condition.b)
            ELSE else(condition,
                      Call("parseStatement", expect(condition.b, "RPAREN").b))
    IN  then(Call("parseExpression", expect(advance(b).b, "LPAREN").b))

parseForStatement(b) ==
    LET statement(init, condition, loop, body) ==
            IF body.b.spin THEN Spun(body.b)
            ELSE Located(body.b,
                         [Type |-> "ForStatement", Loc |-> Nil, Range |-> Nil,
                          InitExpression |-> init.node,
                          ConditionExpression |-> condition.node,
                          LoopExpression |-> loop.node, Body |-> body.node],
                         advance(b).tok)
        body(init, condition, loop) ==
            IF loop.b.spin THEN Spun(loop.b)
            ELSE statement(init, condition, loop,
                           Call("parseStatement", expect(loop.b, "RPAREN").b))
        loopExpression(b3) ==
            IF ~check(b3, "RPAREN") THEN Call("parseExpression", b3)
            ELSE R(b3, Nil)
        loop(init, condition) ==
            IF condition.b.spin THEN Spun(condition.b)
            ELSE body(init, condition,
                      loopExpression(expect(condition.b, "SEMICOLON").b))
        conditionExpression(b2) ==
            IF ~check(b2, "SEMICOLON") THEN Call("parseExpression", b2)
            ELSE R(b2, Nil)
        condition(init) ==
            IF init.b.spin THEN Spun(init.b)
            ELSE loop(init, conditionExpression(init.b))
        initExpression(b1) ==
            IF ~check(b1, "SEMICOLON")
            THEN IF isTypeName(b1) THEN parseVariableDeclarationStatement(b1)
                 ELSE Call("parseExpressionStatement", b1)
            ELSE R(advance(b1).b, Nil)
    IN  condition(initExpression(expect(advance(b).b, "LPAREN").b))

parseWhileStatement(b) ==
    LET statement(condition, body) ==
            IF body.b.spin THEN Spun(body.b)
            ELSE Located(body.b,
                         [Type |-> "WhileStatement", Loc |-> Nil, Range |-> Nil,
                          Condition |-> condition.node, Body |-> body.node],
                         advance(b).tok)
        body(condition) ==
            IF condition.b.spin THEN Spun(condition.b)
            ELSE statement(condition,
                           Call("parseStatement", expect(condition.b, "RPAREN").b))
    IN  body(Call("parseExpression", expect(advance(b).b, "LPAREN").b))

parseDoWhileStatement(b) ==
    LET statement(body, condition) ==
            IF condition.b.spin THEN Spun(condition.b)
            ELSE Located(expect(expect(condition.b, "RPAREN").b, "SEMICOLON").b,
                         [Type |-> "DoWhileStatement", Loc |-> Nil, Range |-> Nil,
                          Condition |-> condition.node, Body |-> body.node],
                         advance(b).tok)
        condition(body) ==
            IF body.b.spin THEN Spun(body.b)
            ELSE statement(body,
                     Call("parseExpression",
                          expect(expect(body.b, "WHILE").b, "LPAREN").b))
    IN  condition(Call("parseStatement", advance(b).b))

parseContinueStatement(b) ==
    LET statement(endTok) ==
            R(endTok.b,
              setLocation([Type |-> "ContinueStatement", Loc |-> Nil,
                           Range |-> Nil],
                          advance(b).tok, endTok.tok))
    IN  statement(expect(advance(b).b, "SEMICOLON"))

parseBreakStatement(b) ==
    LET statement(endTok) ==
            R(endTok.b,
              setLocation([Type |-> "BreakStatement", Loc |-> Nil, Range |-> Nil],
                          advance(b).tok, endTok.tok))
    IN  statement(expect(advance(b).b, "SEMICOLON"))

parseReturnStatement(b) ==
    LET statement(expr, endTok) ==
            R(endTok.b,
              setLocation([Type |-> "ReturnStatement", Loc |-> Nil, Range |-> Nil,
                           Expression |-> expr.node],
                          advance(b).tok, endTok.tok))
        end(expr) ==
            IF expr.b.spin THEN Spun(expr.b)
            ELSE statement(expr, expect(expr.b, "SEMICOLON"))
        expression(b0) ==
            end(IF ~check(b0, "SEMICOLON") THEN Call("parseExpression", b0)
                ELSE R(b0, Nil))
    IN  expression(advance(b).b)

parseEmitStatement(b) ==
    LET statement(eventCall, endTok) ==
            R(endTok.b,
              setLocation([Type |-> "EmitStatement", Loc |-> Nil, Range |-> Nil,
                           EventCall |-> eventCall.node],
                          advance(b).tok, endTok.tok))
        end(eventCall) ==
            IF eventCall.b.spin THEN Spun(eventCall.b)
            ELSE statement(eventCall, expect(eventCall.b, "SEMICOLON"))
    IN  end(Call("parseExpression", advance(b).b))

parseRevertStatement(b) ==
    LET statement(revertCall, endTok) ==
            R(endTok.b,
              setLocation([Type |-> "RevertStatement", Loc |-> Nil, Range |-> Nil,
                           RevertCall |-> revertCall.node],
                          advance(b).tok, endTok.tok))
        end(revertCall) ==
            IF revertCall.b.spin THEN Spun(revertCall.b)
            ELSE statement(revertCall, expect(revertCall.b, "SEMICOLON"))
        expression(b0) ==
            end(IF ~check(b0, "SEMICOLON") THEN Call("parseExpression", b0)
                ELSE R(b0, Nil))
    IN  expression(advance(b).b)

parseTryCallMemberIndex(b) ==
    parseCallMemberIndexLoop(Call("parsePrimary", b), FALSE)

parseTryExpression(b) == parseTryCallMemberIndex(b)

parseCatchClause(b) ==
    LET node == [Type |-> "CatchClause", Loc |-> Nil, Range |-> Nil,
                 IsReasonStringType |-> FALSE, Kind |-> <<>>,
                 Parameters |-> <<>>, Body |-> Nil]
        clause(params, body) ==
            IF body.b.spin THEN Spun(body.b)
            ELSE Located(body.b, [params.node EXCEPT !.Body = body.node],
                         advance(b).tok)
        body(params) == clause(params, Call("parseBlock", params.b))
        parameterized(head, params) ==
            IF params.b.spin THEN Spun(params.b)
            ELSE R(params.b, [head.node EXCEPT !.Parameters = params.list])
        parameters(head) ==
            IF check(head.b, "LPAREN")
            THEN parameterized(head, Call("parseParameterList", head.b))
            ELSE head
        kind(kindTok) ==
            R(kindTok.b,
              [node EXCEPT
                  !.Kind = kindTok.tok.Value,
                  !.IsReasonStringType = (kindTok.tok.Value = <<"E","r","r","o","r">>)])
        head(b0) ==
            IF check(b0, "IDENTIFIER") THEN kind(advance(b0)) ELSE R(b0, node)
    IN  body(parameters(head(advance(b).b)))

RECURSIVE parseCatchClauses(_, _)

\* The loop over the catch clauses of parseTryStatement.
parseCatchClauses(b, clauses) ==
    LET next(clause) ==
            IF clause.b.spin THEN Spun(clause.b)
            ELSE parseCatchClauses(clause.b, Append(clauses, clause.node))
    IN  IF b.spin \/ ~check(b, "CATCH") THEN RL(b, clauses)
        ELSE next(parseCatchClause(b))

parseTryStatement(b) ==
    LET statement(expr, returns, body, clauses) ==
            IF clauses.b.spin THEN Spun(clauses.b)
            ELSE Located(clauses.b,
                         [Type |-> "TryStatement", Loc |-> Nil, Range |-> Nil,
                          Expression |-> expr.node,
                          ReturnParameters |-> returns.list, Body |-> body.node,
                          CatchClauses |-> clauses.list],
                         advance(b).tok)
        catch(expr, returns, body) ==
            IF body.b.spin THEN Spun(body.b)
            ELSE statement(expr, returns, body, parseCatchClauses(body.b, <<>>))
        body(expr, returns) ==
            IF returns.b.spin THEN Spun(returns.b)
            ELSE catch(expr, returns, Call("parseBlock", returns.b))
        returns(expr) ==
            IF expr.b.spin THEN Spun(expr.b)
            ELSE body(expr, parseReturnParameters(expr.b))
    IN  returns(parseTryExpression(advance(b).b))

parseUncheckedBlock(b) ==
    LET block(body) ==
            IF body.b.spin THEN Spun(body.b)
            ELSE Located(body.b,
                         [Type |-> "UncheckedBlock", Loc |-> Nil, Range |-> Nil,
                          Body |-> body.node],
                         advance(b).tok)
    IN  block(Call("parseBlock", advance(b).b))

RECURSIVE parseAssemblyNames(_, _)

\* The loop "IDENTIFIER (, IDENTIFIER)*" of parseAssemblyLocalDefinition, of
\* parseAssemblyExpressionOrAssignment and of the return arguments of
\* parseAssemblyFunctionDefinition.
parseAssemblyNames(b, names) ==
    LET next(nameTok) ==
            IF ~check(nameTok.b, "COMMA")
            THEN RL(nameTok.b, Append(names, Identifier(nameTok.tok.Value)))
            ELSE parseAssemblyNames(advance(nameTok.b).b,
                                    Append(names, Identifier(nameTok.tok.Value)))
    IN  next(expect(b, "IDENTIFIER"))

parseAssemblyLiteral(b) ==
    LET literal(tok) ==
            setLocation([Type |-> "AssemblyLiteral", Loc |-> Nil, Range |-> Nil,
                         Kind |-> CASE tok.Type \in {"NUMBER", "HEX_NUMBER"} ->
                                         <<"n","u","m","b","e","r">>
                                    [] tok.Type = "STRING" -> <<"s","t","r","i","n","g">>
                                    [] tok.Type \in {"TRUE", "FALSE"} -> <<"b","o","o","l","e","a","n">>
                                    [] OTHER -> <<"n","u","m","b","e","r">>,
                         Value |-> tok.Value],
                        tok, tok)
    IN  R(advance(b).b, literal(advance(b).tok))

RECURSIVE parseAssemblyArguments(_, _)

\* The loop over the arguments of parseAssemblyCall.
parseAssemblyArguments(b, arguments) ==
    IF b.spin \/ ~(~check(b, "RPAREN") /\ ~isAtEnd(b)) THEN RL(b, arguments)
    ELSE LET comma(b1) == IF ~check(b1, "RPAREN") THEN expect(b1, "COMMA").b
                          ELSE b1
             next(arg) ==
                 IF arg.b.spin THEN Spun(arg.b)
                 ELSE parseAssemblyArguments(Iterated(b, comma(arg.b)),
                                             Append(arguments, arg.node))
         IN  next(Call("parseAssemblyExpression", b))

parseAssemblyCall(b, name, startTok) ==
    LET call(l) ==
            IF l.b.spin THEN Spun(l.b)
            ELSE Located(expect(l.b, "RPAREN").b,
                         [Type |-> "AssemblyCall", Loc |-> Nil, Range |-> Nil,
                          FunctionName |-> name, Arguments |-> l.list],
                         startTok)
    IN  call(parseAssemblyArguments(expect(b, "LPAREN").b, <<>>))

parseAssemblyExpression(b) ==
    LET identifier(startTok) ==
            IF check(startTok.b, "LPAREN")
            THEN parseAssemblyCall(startTok.b, startTok.tok.Value, startTok.tok)
            ELSE R(startTok.b,
                   setLocation([Type |-> "AssemblyIdentifier", Loc |-> Nil,
                                Range |-> Nil, Name |-> startTok.tok.Value],
                               startTok.tok, startTok.tok))
    IN  IF peek(b).Type = "IDENTIFIER" THEN identifier(advance(b))
        ELSE parseAssemblyLiteral(b)

parseAssemblyLocalDefinition(b) ==
    LET definition(names, expr) ==
            IF expr.b.spin THEN Spun(expr.b)
            ELSE Located(expr.b,
                         [Type |-> "AssemblyLocalDefinition", Loc |-> Nil,
                          Range |-> Nil, Names |-> names.list,
                          Expression |-> expr.node],
                         advance(b).tok)
        expression(names) ==
            IF names.b.spin THEN Spun(names.b)
            ELSE definition(names,
                            IF check(names.b, "ASSIGN")
                            THEN Call("parseAssemblyExpression", advance(names.b).b)
                            ELSE R(names.b, Nil))
    IN  expression(parseAssemblyNames(advance(b).b, <<>>))

parseAssemblyIf(b) ==
    LET statement(condition, body) ==
            IF body.b.spin THEN Spun(body.b)
            ELSE Located(body.b,
                         [Type |-> "AssemblyIf", Loc |-> Nil, Range |-> Nil,
                          Condition |-> condition.node, Body |-> body.node],
                         advance(b).tok)
        body(condition) ==
            IF condition.b.spin THEN Spun(condition.b)
            ELSE statement(condition, Call("parseAssemblyBlock", condition.b))
    IN  body(Call("parseAssemblyExpression", advance(b).b))

parseAssemblyFor(b) ==
    LET statement(pre, condition, post, body) ==
            IF body.b.spin THEN Spun(body.b)
            ELSE Located(body.b,
                         [Type |-> "AssemblyFor", Loc |-> Nil, Range |-> Nil,
                          Pre |-> pre.node, Condition |-> condition.node,
                          Post |-> post.node, Body |-> body.node],
                         advance(b).tok)
        body(pre, condition, post) ==
            IF post.b.spin THEN Spun(post.b)
            ELSE statement(pre, condition, post, Call("parseAssemblyBlock", post.b))
        post(pre, condition) ==
            IF condition.b.spin THEN Spun(condition.b)
            ELSE body(pre, condition, Call("parseAssemblyBlock", condition.b))
        condition(pre) ==
            IF pre.b.spin THEN Spun(pre.b)
            ELSE post(pre, Call("parseAssemblyExpression", pre.b))
    IN  condition(Call("parseAssemblyBlock", advance(b).b))

RECURSIVE parseAssemblyCases(_, _)

\* The loop over "case literal { }" and "default { }" of parseAssemblySwitch.
parseAssemblyCases(b, cases) ==
    LET case(isDefault, value, body) ==
            IF body.b.spin THEN Spun(body.b)
            ELSE parseAssemblyCases(body.b,
                     Append(cases, [Type |-> "AssemblyCase", Loc |-> Nil,
                                    Range |-> Nil, Value |-> value.node,
                                    Body |-> body.node, Default |-> isDefault]))
        block(isDefault, value) ==
            IF value.b.spin THEN Spun(value.b)
            ELSE case(isDefault, value, Call("parseAssemblyBlock", value.b))
    IN  IF b.spin \/ ~(check(b, "CASE") \/ check(b, "DEFAULT")) THEN RL(b, cases)
        ELSE block(check(b, "DEFAULT"),
                   IF check(b, "DEFAULT") THEN R(advance(b).b, Nil)
                   ELSE parseAssemblyLiteral(advance(b).b))

parseAssemblySwitch(b) ==
    LET statement(expr, cases) ==
            IF cases.b.spin THEN Spun(cases.b)
            ELSE Located(cases.b,
                         [Type |-> "AssemblySwitch", Loc |-> Nil, Range |-> Nil,
                          Expression |-> expr.node, Cases |-> cases.list],
                         advance(b).tok)
        cases(expr) ==
            IF expr.b.spin THEN Spun(expr.b)
            ELSE statement(expr, parseAssemblyCases(expr.b, <<>>))
    IN  cases(Call("parseAssemblyExpression", advance(b).b))

RECURSIVE parseAssemblyFunctionArguments(_, _)

\* The loop over the argument names of parseAssemblyFunctionDefinition.
parseAssemblyFunctionArguments(b, arguments) ==
    IF b.spin \/ ~(~check(b, "RPAREN") /\ ~isAtEnd(b)) THEN RL(b, arguments)
    ELSE LET comma(b1) == IF ~check(b1, "RPAREN") THEN expect(b1, "COMMA").b
                          ELSE b1
             next(argTok) ==
                 parseAssemblyFunctionArguments(
                     Iterated(b, comma(argTok.b)),
                     Append(arguments, Identifier(argTok.tok.Value)))
         IN  next(expect(b, "IDENTIFIER"))

parseAssemblyFunctionDefinition(b) ==
    LET definition(nameTok, args, rets, body) ==
            IF body.b.spin THEN Spun(body.b)
            ELSE Located(body.b,
                         [Type |-> "AssemblyFunctionDefinition", Loc |-> Nil,
                          Range |-> Nil, Name |-> nameTok.tok.Value,
                          Arguments |-> args.list, ReturnArguments |-> rets.list,
                          Body |-> body.node],
                         advance(b).tok)
        body(nameTok, args, rets) ==
            IF rets.b.spin THEN Spun(rets.b)
            ELSE definition(nameTok, args, rets, Call("parseAssemblyBlock", rets.b))
        returns(nameTok, args, b2) ==
            body(nameTok, args,
                 IF check(b2, "ARROW")
                 THEN parseAssemblyNames(advance(b2).b, <<>>)
                 ELSE RL(b2, <<>>))
        arguments(nameTok, args) ==
            IF args.b.spin THEN Spun(args.b)
            ELSE returns(nameTok, args, expect(args.b, "RPAREN").b)
        name(nameTok) ==
            arguments(nameTok,
                parseAssemblyFunctionArguments(expect(nameTok.b, "LPAREN").b, <<>>))
    IN  name(expect(advance(b).b, "IDENTIFIER"))

parseAssemblyExpressionOrAssignment(b) ==
    LET assignment(names, expr) ==
            IF expr.b.spin THEN Spun(expr.b)
            ELSE Located(expr.b,
                         [Type |-> "AssemblyAssignment", Loc |-> Nil, Range |-> Nil,
                          Names |-> names.list, Expression |-> expr.node],
                         peek(b))
        rest(names) ==
            IF names.b.spin THEN Spun(names.b)
            ELSE IF check(names.b, "ASSIGN")
            THEN assignment(names,
                                 Call("parseAssemblyExpression", advance(names.b).b))
            ELSE IF Len(names.list) = 1
            THEN IF check(names.b, "LPAREN")
                      THEN parseAssemblyCall(names.b, names.list[1].Name, peek(b))
                      ELSE R(names.b, names.list[1])
            ELSE R(names.b, names.list[1])
    IN  rest(parseAssemblyNames(b, <<>>))

parseAssemblyStatement_(b) ==
    CASE peek(b).Type = "LBRACE"     -> Call("parseAssemblyBlock", b)
      [] peek(b).Type = "LET"        -> parseAssemblyLocalDefinition(b)
      [] peek(b).Type = "IF"         -> parseAssemblyIf(b)
      [] peek(b).Type = "FOR"        -> parseAssemblyFor(b)
      [] peek(b).Type = "SWITCH"     -> parseAssemblySwitch(b)
      [] peek(b).Type = "FUNCTION"   -> parseAssemblyFunctionDefinition(b)
      [] peek(b).Type = "IDENTIFIER" -> parseAssemblyExpressionOrAssignment(b)
      [] OTHER -> IF peek(b).Type = "RBRACE" THEN R(b, Nil)
                  ELSE R(advance(b).b, Nil)

RECURSIVE parseAssemblyOperations(_, _)

\* The loop of parseAssemblyBlock.
parseAssemblyOperations(b, operations) ==
    IF b.spin \/ ~(~check(b, "RBRACE") /\ ~isAtEnd(b)) THEN RL(b, operations)
    ELSE LET next(op) ==
                 IF op.b.spin THEN Spun(op.b)
                 ELSE parseAssemblyOperations(Iterated(b, op.b),
                                              appendNode(operations, op.node))
         IN  next(Call("parseAssemblyStatement_", b))

parseAssemblyBlock(b) ==
    LET block(startTok, l, endTok) ==
            R(endTok.b,
              setLocation([Type |-> "AssemblyBlock", Loc |-> Nil, Range |-> Nil,
                           Operations |-> l.list],
                          startTok.tok, endTok.tok))
        operations(startTok, l) ==
            IF l.b.spin THEN Spun(l.b)
            ELSE block(startTok, l, expect(l.b, "RBRACE"))
        open(startTok) ==
            operations(startTok, parseAssemblyOperations(startTok.b, <<>>))
    IN  open(expect(b, "LBRACE"))

parseAssemblyStatement(b) ==
    LET assembly(language, body) ==
            IF body.b.spin THEN Spun(body.b)
            ELSE Located(body.b,
                         [Type |-> "InlineAssembly", Loc |-> Nil, Range |-> Nil,
                          Language |-> language, Body |-> body.node],
                         advance(b).tok)
        language(b0) ==
            assembly(IF check(b0, "STRING") THEN advance(b0).tok.Value ELSE <<>>,
                     Call("parseAssemblyBlock",
                          IF check(b0, "STRING") THEN advance(b0).b ELSE b0))
    IN  language(advance(b).b)

parseStatement(b) ==
    CASE peek(b).Type = "LBRACE"    -> Call("parseBlock", b)
      [] peek(b).Type = "IF"        -> parseIfStatement(b)
      [] peek(b).Type = "FOR"       -> parseForStatement(b)
      [] peek(b).Type = "WHILE"     -> parseWhileStatement(b)
      [] peek(b).Type = "DO"        -> parseDoWhileStatement(b)
      [] peek(b).Type = "CONTINUE"  -> parseContinueStatement(b)
      [] peek(b).Type = "BREAK"     -> parseBreakStatement(b)
      [] peek(b).Type = "RETURN"    -> parseReturnStatement(b)
      [] peek(b).Type = "EMIT"      -> parseEmitStatement(b)
      [] peek(b).Type = "REVERT"    -> parseRevertStatement(b)
      [] peek(b).Type = "TRY"       -> parseTryStatement(b)
      [] peek(b).Type = "ASSEMBLY"  -> parseAssemblyStatement(b)
      [] peek(b).Type = "UNCHECKED" -> parseUncheckedBlock(b)
      [] OTHER ->
            LET looks == looksLikeVariableDeclaration(b)
            IN  IF looks.yes
                THEN parseVariableDeclarationStatement(looks.b)
                ELSE IF check(looks.b, "LPAREN")
                THEN parseTupleVariableDeclarationOrExpression(looks.b)
                ELSE Call("parseExpressionStatement", looks.b)

(***************************************************************************)
(* The methods of *Builder that are called from several places or that     *)
(* call themselves.  A method entered on a builder that has spin set is    *)
(* never reached by the program.                                           *)
(***************************************************************************)
Call(name, b) ==
    CASE b.spin -> Spun(b)
      [] name = "parseExpression" -> parseExpression(b)
      [] name = "parseAssignment" -> parseAssignment(b)
      [] name = "parseTernary" -> parseTernary(b)
      [] name = "parseLogicalAnd" -> parseLogicalAnd(b)
      [] name = "parseEquality" -> parseEquality(b)
      [] name = "parseRelational" -> parseRelational(b)
      [] name = "parseBitwiseOr" -> parseBitwiseOr(b)
      [] name = "parseBitwiseXor" -> parseBitwiseXor(b)
      [] name = "parseBitwiseAnd" -> parseBitwiseAnd(b)
      [] name = "parseShift" -> parseShift(b)
      [] name = "parseAdditive" -> parseAdditive(b)
      [] name = "parseMultiplicative" -> parseMultiplicative(b)
      [] name = "parseExponentiation" -> parseExponentiation(b)
      [] name = "parseUnary" -> parseUnary(b)
      [] name = "parsePostfix" -> parsePostfix(b)
      [] name = "parsePrimary" -> parsePrimary(b)
      [] name = "parseExpressionList" -> parseExpressionList(b)
      [] name = "parseTypeName" -> parseTypeName(b)
      [] name = "parseElementaryTypeName" -> parseElementaryTypeName(b)
      [] name = "parseUserDefinedTypeName" -> parseUserDefinedTypeName(b)
      [] name = "parseParameterList" -> parseParameterList(b)
      [] name = "parseBlock" -> parseBlock(b)
      [] name = "parseStatement" -> parseStatement(b)
      [] name = "parseExpressionStatement" -> parseExpressionStatement(b)
      [] name = "parseAssemblyBlock" -> parseAssemblyBlock(b)
      [] name = "parseAssemblyExpression" -> parseAssemblyExpression(b)
      [] name = "parseStateVariableDeclaration" ->
            parseStateVariableDeclaration(b)
      [] name = "parseFunctionDefinition" -> parseFunctionDefinition(b)
      [] name = "parseStructDefinition" -> parseStructDefinition(b)
      [] name = "parseEnumDefinition" -> parseEnumDefinition(b)
      [] name = "parseEventDefinition" -> parseEventDefinition(b)
      [] name = "parseErrorDefinition" -> parseErrorDefinition(b)
      [] name = "parseUsingDirective" -> parseUsingDirective(b)
      [] name = "parseUserDefinedValueTypeDefinition" ->
            parseUserDefinedValueTypeDefinition(b)
      [] name = "parseAssemblyStatement_" -> parseAssemblyStatement_(b)
      [] name = "parseContractBodyElement" -> parseContractBodyElement(b)
      [] name = "parseSourceUnitElement" -> parseSourceUnitElement(b)

(***************************************************************************)
(* builder.New, Builder.Build and parser.Parse as steps of one call of     *)
(* Parse(input, options).                                                  *)
(***************************************************************************)
\* The *Builder that the parse functions work on.
Builder == [pos |-> pos, errors |-> errors, spin |-> spin]

\* builder.New(input, opts): scan the whole input.
New ==
    /\ pc = "new"
    /\ tokens' = Tokenize
    /\ pos' = 0
    /\ errors' = <<>>
    /\ pc' = "build"
    /\ UNCHANGED <<walked, process, comparison, input, options, spin, sourceUnit, built, ret>>

\* Build, up to its loop: the empty SourceUnit.
Build ==
    /\ pc = "build"
    /\ sourceUnit' = [Type |-> "SourceUnit", Loc |-> Nil, Range |-> Nil,
                      Children |-> <<>>]
    /\ pc' = "loop"
    /\ UNCHANGED <<walked, process, comparison, input, options, tokens, pos, errors, spin, built, ret>>

\* One iteration of "for !b.isAtEnd()" in Build, with the strict-mode return
\* at its end.  An iteration in which some loop spins does not end.
BuildElement ==
    /\ pc = "loop"
    /\ ~isAtEnd(Builder)
    /\ LET iteration(r, b1) ==
               /\ pos' = b1.pos
               /\ errors' = b1.errors
               /\ spin' = b1.spin
               /\ sourceUnit' = [sourceUnit EXCEPT
                                    !.Children = appendNode(@, r.node)]
               /\ IF b1.spin
                  THEN /\ pc' = "spin"
                       /\ UNCHANGED built
                  ELSE IF Len(b1.errors) > 0 /\ ~options.Tolerant
                  THEN /\ built' = [tree |-> Nil, err |-> b1.errors[1]]
                       /\ pc' = "built"
                  ELSE UNCHANGED <<built, pc>>
           element(r) ==
               IF r.b.spin THEN iteration(r, r.b)
               ELSE iteration(r, Iterated(Builder, r.b))
       IN  element(Call("parseSourceUnitElement", Builder))
    /\ UNCHANGED <<walked, process, comparison, input, options, tokens, ret>>

\* Build once the loop has ended: the root's location, and the return.
BuildReturn ==
    /\ pc = "loop"
    /\ isAtEnd(Builder)
    /\ LET located(children) ==
               IF options.Loc /\ Len(children) > 0
                  /\ children[1].Loc # Nil /\ children[Len(children)].Loc # Nil
               THEN [sourceUnit EXCEPT
                        !.Loc = [start |-> children[1].Loc.start,
                                 end   |-> children[Len(children)].Loc.end]]
               ELSE sourceUnit
           return(result) ==
               /\ sourceUnit' = result
               /\ built' = [tree |-> result, err |-> Nil]
       IN  return(located(sourceUnit.Children))
    /\ pc' = "built"
    /\ UNCHANGED <<walked, process, comparison, input, options, tokens, pos, errors, spin, ret>>

\* Parse refusing a tree whenever errors were collected, tolerant or not;
\* TolerantAlwaysReturnsTree rests on the test of opts.Tolerant.
ParseRefusingErrors ==
    /\ pc = "built"
    /\ ret' = IF built.err # Nil
              THEN [tree |-> Nil, err |-> [Errors |-> <<built.err>>]]
              ELSE IF Len(errors) > 0
              THEN [tree |-> Nil, err |-> [Errors |-> errors]]
              ELSE [tree |-> built.tree, err |-> Nil]
    /\ pc' = "done"
    /\ UNCHANGED <<walked, process, comparison, input, options, tokens, pos, errors, spin, sourceUnit, built>>

\* Parse wrapping every collected error when Build fails;
\* StrictReturnsFirstError rests on its wrapping the one error Build returned.
ParseAllErrors ==
    /\ pc = "built"
    /\ ret' = IF built.err # Nil
              THEN [tree |-> Nil, err |-> [Errors |-> errors]]
              ELSE IF Len(errors) > 0 /\ ~options.Tolerant
              THEN [tree |-> Nil, err |-> [Errors |-> errors]]
              ELSE [tree |-> built.tree, err |-> Nil]
    /\ pc' = "done"
    /\ UNCHANGED <<walked, process, comparison, input, options, tokens, pos, errors, spin, sourceUnit, built>>

\* Parse after b.Build() has returned.
Parse ==
    /\ pc = "built"
    /\ ret' = IF built.err # Nil
              THEN [tree |-> Nil, err |-> [Errors |-> <<built.err>>]]
              ELSE IF Len(errors) > 0 /\ ~options.Tolerant
              THEN [tree |-> Nil, err |-> [Errors |-> errors]]
              ELSE [tree |-> built.tree, err |-> Nil]
    /\ pc' = "done"
    /\ UNCHANGED <<walked, process, comparison, input, options, tokens, pos, errors, spin, sourceUnit, built>>

Next == New \/ Build \/ BuildElement \/ BuildReturn \/ Parse

\* The solast process before it has written anything or exited.
Running == [stdout |-> <<>>, stderr |-> <<>>, exit |-> Nil]

\* Parse(input, options) is about to run on one of the given inputs with one
\* of the given option records.
InitOn(inputs, opts) ==
    /\ input \in inputs
    /\ options \in opts
    /\ tokens = <<>>
    /\ pos = 0
    /\ errors = <<>>
    /\ spin = FALSE
    /\ sourceUnit = Nil
    /\ pc = "new"
    /\ built = [tree |-> Nil, err |-> Nil]
    /\ ret = [tree |-> Nil, err |-> Nil]
    /\ process = Running
    /\ comparison = Nil
    /\ walked = Nil

Options == [Tolerant : BOOLEAN, Loc : BOOLEAN, Range : BOOLEAN]

(***************************************************************************)
(* cmd/solast: the validate command.  The command reads its input, calls   *)
(* parser.Parse with the options below and ends on what Parse returned;    *)
(* the call of Parse is the actions New .. Parse above.                    *)
(***************************************************************************)
\* "opts := &parser.Options{Tolerant: true}"
validateOptions == [Tolerant |-> TRUE, Loc |-> FALSE, Range |-> FALSE]

\* runValidate after parser.Parse(input, opts) has returned.  An error of
\* Parse that is a *ParserError is listed on stderr before os.Exit(1); any
\* other error is returned to main, which exits with 1 as well; without an
\* error the command prints "Syntax OK" and main returns.
runValidate ==
    /\ pc = "done"
    /\ options = validateOptions
    /\ process' =
          IF ret.err # Nil
          THEN IF "Errors" \in DOMAIN ret.err
               THEN [stdout |-> <<>>,
                     stderr |-> <<Sprintf("Syntax errors found:\n", <<>>)>>
                                \o [i \in DOMAIN ret.err.Errors |->
                                      Sprintf("  line %d:%d: %s\n",
                                              <<ret.err.Errors[i].Line,
                                                ret.err.Errors[i].Column,
                                                ret.err.Errors[i].Message>>)],
                     exit |-> 1]
               ELSE [stdout |-> <<>>,
                     stderr |-> <<Sprintf("parse error: %w", <<ret.err>>)>>,
                     exit |-> 1]
          ELSE [stdout |-> <<<<"S","y","n","t","a","x"," ","O","K">>>>, stderr |-> <<>>, exit |-> 0]
    /\ pc' = "exited"
    /\ UNCHANGED <<walked, comparison, input, options, tokens, pos, errors, spin,
                   sourceUnit, built, ret>>

(***************************************************************************)
(* pkg/version: comparing versions.  A Version is a record of Major, Minor *)
(* and Patch.                                                              *)
(***************************************************************************)
\* Compare deciding on Major and Minor alone; CompareIsLexicographic rests on
\* the comparison of Patch.
CompareWithoutPatch(v, other) ==
    IF v.Major # other.Major
    THEN IF v.Major < other.Major THEN -1 ELSE 1
    ELSE IF v.Minor # other.Minor
    THEN IF v.Minor < other.Minor THEN -1 ELSE 1
    ELSE 0

Compare(v, other) ==
    IF v.Major # other.Major
    THEN IF v.Major < other.Major THEN -1 ELSE 1
    ELSE IF v.Minor # other.Minor
    THEN IF v.Minor < other.Minor THEN -1 ELSE 1
    ELSE IF v.Patch # other.Patch
    THEN IF v.Patch < other.Patch THEN -1 ELSE 1
    ELSE 0

LessThan(v, other) == Compare(v, other) < 0

LessThanOrEqual(v, other) == Compare(v, other) <= 0

GreaterThan(v, other) == Compare(v, other) > 0

GreaterThanOrEqual(v, other) == Compare(v, other) >= 0

Equal(v, other) == Compare(v, other) = 0

\* The two versions are compared each way and with each of the five tests.
CompareVersions ==
    /\ comparison # Nil
    /\ comparison.result = Nil
    /\ comparison' =
          [comparison EXCEPT !.result =
              [Compare |-> Compare(comparison.v, comparison.other),
               Reverse |-> Compare(comparison.other, comparison.v),
               LessThan |-> LessThan(comparison.v, comparison.other),
               LessThanOrEqual |-> LessThanOrEqual(comparison.v, comparison.other),
               GreaterThan |-> GreaterThan(comparison.v, comparison.other),
               GreaterThanOrEqual |->
                   GreaterThanOrEqual(comparison.v, comparison.other),
               Equal |-> Equal(comparison.v, comparison.other)]]
    /\ UNCHANGED <<walked, process, input, options, tokens, pos, errors, spin,
                   sourceUnit, pc, built, ret>>
(***************************************************************************)
(* pkg/parser: Walk and WalkSimple.                                        *)
(***************************************************************************)
\* The node types the type switch of Walk, and that of WalkSimple, has a
\* case for.
WalkTypes ==
    {"SourceUnit", "PragmaDirective", "ImportDirective",
     "ContractDefinition", "InheritanceSpecifier", "FunctionDefinition",
     "ModifierDefinition", "ModifierInvocation",
     "StateVariableDeclaration", "VariableDeclaration",
     "VariableDeclarationStatement", "StructDefinition", "EnumDefinition",
     "EnumValue", "EventDefinition", "ErrorDefinition",
     "UserDefinedValueTypeDefinition", "UsingForDeclaration",
     "ElementaryTypeName", "UserDefinedTypeName", "Mapping",
     "ArrayTypeName", "FunctionTypeName", "Block", "UncheckedBlock",
     "ExpressionStatement", "IfStatement", "WhileStatement",
     "DoWhileStatement", "ForStatement", "ContinueStatement",
     "BreakStatement", "ReturnStatement", "EmitStatement",
     "RevertStatement", "TryStatement", "CatchClause", "BinaryOperation",
     "UnaryOperation", "Conditional", "FunctionCall",
     "FunctionCallOptions", "MemberAccess", "IndexAccess",
     "IndexRangeAccess", "NewExpression", "TupleExpression",
     "NameValueExpression", "Identifier", "NumberLiteral",
     "BooleanLiteral", "StringLiteral", "HexLiteral", "InlineAssembly",
     "AssemblyBlock", "AssemblyCall", "AssemblyLocalDefinition",
     "AssemblyAssignment", "AssemblyIdentifier", "AssemblyLiteral",
     "AssemblyIf", "AssemblySwitch", "AssemblyCase", "AssemblyFor",
     "AssemblyFunctionDefinition"}

\* The fields the case of a node type walks, in the order it walks them.
WalkFields(type) ==
    CASE type = "SourceUnit" ->
            <<"Children">>
      [] type = "ContractDefinition" ->
            <<"BaseContracts", "SubNodes">>
      [] type = "InheritanceSpecifier" ->
            <<"BaseName", "Arguments">>
      [] type = "FunctionDefinition" ->
            <<"Parameters", "ReturnParameters", "Modifiers", "Body">>
      [] type = "ModifierDefinition" ->
            <<"Parameters", "Body">>
      [] type = "ModifierInvocation" ->
            <<"Arguments">>
      [] type = "StateVariableDeclaration" ->
            <<"Variables", "InitialValue">>
      [] type = "VariableDeclaration" ->
            <<"TypeName", "Expression">>
      [] type = "VariableDeclarationStatement" ->
            <<"Variables", "InitialValue">>
      [] type = "StructDefinition" ->
            <<"Members">>
      [] type = "EnumDefinition" ->
            <<"Members">>
      [] type = "EventDefinition" ->
            <<"Parameters">>
      [] type = "ErrorDefinition" ->
            <<"Parameters">>
      [] type = "UserDefinedValueTypeDefinition" ->
            <<"UnderlyingType">>
      [] type = "UsingForDeclaration" ->
            <<"TypeName">>
      [] type = "Mapping" ->
            <<"KeyType", "ValueType">>
      [] type = "ArrayTypeName" ->
            <<"BaseTypeName", "Length">>
      [] type = "FunctionTypeName" ->
            <<"ParameterTypes", "ReturnTypes">>
      [] type = "Block" ->
            <<"Statements">>
      [] type = "UncheckedBlock" ->
            <<"Body">>
      [] type = "ExpressionStatement" ->
            <<"Expression">>
      [] type = "IfStatement" ->
            <<"Condition", "TrueBody", "FalseBody">>
      [] type = "WhileStatement" ->
            <<"Condition", "Body">>
      [] type = "DoWhileStatement" ->
            <<"Condition", "Body">>
      [] type = "ForStatement" ->
            <<"InitExpression", "ConditionExpression", "LoopExpression", "Body">>
      [] type = "ReturnStatement" ->
            <<"Expression">>
      [] type = "EmitStatement" ->
            <<"EventCall">>
      [] type = "RevertStatement" ->
            <<"RevertCall">>
      [] type = "TryStatement" ->
            <<"Expression", "Body", "CatchClauses">>
      [] type = "CatchClause" ->
            <<"Parameters", "Body">>
      [] type = "BinaryOperation" ->
            <<"Left", "Right">>
      [] type = "UnaryOperation" ->
            <<"SubExpression">>
      [] type = "Conditional" ->
            <<"Condition", "TrueExpression", "FalseExpression">>
      [] type = "FunctionCall" ->
            <<"Expression", "Arguments">>
      [] type = "FunctionCallOptions" ->
            <<"Expression", "Options">>
      [] type = "MemberAccess" ->
            <<"Expression">>
      [] type = "IndexAccess" ->
            <<"Base", "Index">>
      [] type = "IndexRangeAccess" ->
            <<"Base", "IndexStart", "IndexEnd">>
      [] type = "NewExpression" ->
            <<"TypeName">>
      [] type = "TupleExpression" ->
            <<"Components">>
      [] type = "NameValueExpression" ->
            <<"Expression">>
      [] type = "InlineAssembly" ->
            <<"Body">>
      [] type = "AssemblyBlock" ->
            <<"Operations">>
      [] type = "AssemblyCall" ->
            <<"Arguments">>
      [] type = "AssemblyLocalDefinition" ->
            <<"Expression">>
      [] type = "AssemblyAssignment" ->
            <<"Expression">>
      [] type = "AssemblyIf" ->
            <<"Condition", "Body">>
      [] type = "AssemblySwitch" ->
            <<"Expression", "Cases">>
      [] type = "AssemblyCase" ->
            <<"Value", "Body">>
      [] type = "AssemblyFor" ->
            <<"Pre", "Condition", "Post", "Body">>
      [] type = "AssemblyFunctionDefinition" ->
            <<"Body">>
      [] OTHER -> <<>>

\* The walked fields that are slices; the others hold one node.
WalkSlices ==
    {"Arguments", "BaseContracts", "Cases", "CatchClauses", "Children",
     "Components", "Members", "Modifiers", "Operations", "Options",
     "ParameterTypes", "Parameters", "ReturnParameters", "ReturnTypes",
     "Statements", "SubNodes", "Variables"}

\* The struct a walked field points to when it is declared as *T or []*T in
\* the ast structs, "Node" when it is declared as Node or []Node.
PointerTo(type, field) ==
    CASE <<type, field>> \in
            {<<"ContractDefinition", "BaseContracts">>} -> "InheritanceSpecifier"
      [] <<type, field>> \in
            {<<"InheritanceSpecifier", "BaseName">>} -> "UserDefinedTypeName"
      [] <<type, field>> \in
            {<<"FunctionDefinition", "Parameters">>,
             <<"FunctionDefinition", "ReturnParameters">>,
             <<"ModifierDefinition", "Parameters">>,
             <<"StateVariableDeclaration", "Variables">>,
             <<"VariableDeclarationStatement", "Variables">>,
             <<"StructDefinition", "Members">>,
             <<"EventDefinition", "Parameters">>,
             <<"ErrorDefinition", "Parameters">>,
             <<"FunctionTypeName", "ParameterTypes">>,
             <<"FunctionTypeName", "ReturnTypes">>,
             <<"CatchClause", "Parameters">>} -> "VariableDeclaration"
      [] <<type, field>> \in
            {<<"FunctionDefinition", "Modifiers">>} -> "ModifierInvocation"
      [] <<type, field>> \in
            {<<"FunctionDefinition", "Body">>,
             <<"ModifierDefinition", "Body">>,
             <<"UncheckedBlock", "Body">>, <<"TryStatement", "Body">>,
             <<"CatchClause", "Body">>} -> "Block"
      [] <<type, field>> \in
            {<<"EnumDefinition", "Members">>} -> "EnumValue"
      [] <<type, field>> \in
            {<<"TryStatement", "CatchClauses">>} -> "CatchClause"
      [] <<type, field>> \in
            {<<"InlineAssembly", "Body">>, <<"AssemblyIf", "Body">>,
             <<"AssemblyCase", "Body">>, <<"AssemblyFor", "Pre">>,
             <<"AssemblyFor", "Post">>, <<"AssemblyFor", "Body">>,
             <<"AssemblyFunctionDefinition", "Body">>} -> "AssemblyBlock"
      [] <<type, field>> \in
            {<<"AssemblySwitch", "Cases">>} -> "AssemblyCase"
      [] OTHER -> "Node"

\* A walk that has handed the given nodes to the visitor, in this order; a
\* nil pointer handed to the visitor is recorded as Nil.
Walking(visited, panicked) == [visited |-> visited, panicked |-> panicked]

RECURSIVE walkNode(_, _, _, _), walkFields(_, _, _, _), walkSlice(_, _, _, _)

\* Walk(node, visitor) or WalkSimple(node, visitor) entered with the value v
\* of a field declared as static, after the walk w. A nil field declared as
\* Node is a nil interface and returns at "node == nil". A nil field declared
\* as *T is an interface holding a nil pointer: it is not equal to nil, the
\* case of T runs with n == nil, the visitor is called, and the first n.Field
\* the case reads is a nil pointer dereference. descend is what every Visit
\* method returns (always TRUE for WalkSimple, which asks nothing).
walkNode(w, v, static, descend) ==
    IF w.panicked THEN w
    ELSE IF v = Nil
    THEN IF static = "Node" THEN w
         ELSE Walking(Append(w.visited, Nil),
                      descend /\ WalkFields(static) # <<>>)
    ELSE IF v.Type \notin WalkTypes THEN w
    ELSE IF descend
    THEN walkFields(Walking(Append(w.visited, v), FALSE), v,
                    WalkFields(v.Type), descend)
    ELSE Walking(Append(w.visited, v), FALSE)

\* The statements of one case after the visitor has returned true.
walkFields(w, n, fields, descend) ==
    IF fields = <<>> \/ w.panicked THEN w
    ELSE walkFields(
            IF Head(fields) \in WalkSlices
            THEN walkSlice(w, n[Head(fields)], PointerTo(n.Type, Head(fields)),
                           descend)
            ELSE walkNode(w, n[Head(fields)], PointerTo(n.Type, Head(fields)),
                          descend),
            n, Tail(fields), descend)

\* "for _, x := range n.Field { Walk(x, visitor) }"
walkSlice(w, slice, static, descend) ==
    IF slice = <<>> \/ w.panicked THEN w
    ELSE walkSlice(walkNode(w, Head(slice), static, descend), Tail(slice),
                   static, descend)

\* Walk(tree, visitor) on the tree Parse returned, with a visitor whose Visit
\* methods all return the same answer.
Walk ==
    /\ pc = "done"
    /\ ret.tree # Nil
    /\ walked = Nil
    /\ \E descend \in BOOLEAN :
          walked' = [by |-> "Walk", descend |-> descend,
                     walk |-> walkNode(Walking(<<>>, FALSE), ret.tree, "Node",
                                       descend)]
    /\ UNCHANGED <<process, comparison, input, options, tokens, pos, errors,
                   spin, sourceUnit, pc, built, ret>>

\* WalkSimple(tree, visitor) on the tree Parse returned, with a visitor that
\* has every function set.
WalkSimple ==
    /\ pc = "done"
    /\ ret.tree # Nil
    /\ walked = Nil
    /\ walked' = [by |-> "WalkSimple", descend |-> TRUE,
                  walk |-> walkNode(Walking(<<>>, FALSE), ret.tree, "Node", TRUE)]
    /\ UNCHANGED <<process, comparison, input, options, tokens, pos, errors,
                   spin, sourceUnit, pc, built, ret>>

(***************************************************************************)
(* The nodes of a tree, after the struct definitions of package ast.       *)
(***************************************************************************)
\* The fields of a node of the given type that hold one node.
nodeFields(type) ==
    {"PathLiteral", "UnitAliasIdentifier", "BaseName", "Body", "InitialValue",
     "TypeName", "Identifier", "Expression", "UnderlyingType", "KeyType",
     "KeyName", "ValueType", "ValueName", "BaseTypeName", "Length",
     "Condition", "TrueBody", "FalseBody", "InitExpression",
     "ConditionExpression", "LoopExpression", "EventCall", "RevertCall",
     "Left", "Right", "SubExpression", "TrueExpression", "FalseExpression",
     "Base", "Index", "IndexStart", "IndexEnd", "Pre", "Post"}
        \cup (IF type = "AssemblyCase" THEN {"Value"} ELSE {})

\* The fields of a node of the given type that hold a slice of nodes.
listFields(type) ==
    {"Children", "BaseContracts", "SubNodes", "Arguments", "Parameters",
     "ReturnParameters", "Modifiers", "Override", "Variables", "Members",
     "ParameterTypes", "ReturnTypes", "Statements", "CatchClauses",
     "Identifiers", "Options", "Components", "Operations", "Cases",
     "ReturnArguments"}
        \cup (IF type \in {"AssemblyLocalDefinition", "AssemblyAssignment"}
              THEN {"Names"} ELSE {})

\* The nodes a node refers to.
Children(n) ==
    ({ n[f] : f \in DOMAIN n \cap nodeFields(n.Type) }
        \cup UNION { { n[f][i] : i \in DOMAIN n[f] } :
                        f \in DOMAIN n \cap listFields(n.Type) })
        \ {Nil}

RECURSIVE Nodes(_)

\* The nodes of the tree under n, n included.
Nodes(n) == IF n = Nil THEN {} ELSE {n} \cup UNION { Nodes(c) : c \in Children(n) }

(***************************************************************************)
(* Specification Spec: Parse runs on source texts that open a construct    *)
(* and go on with a few lexemes, and on a few whole texts, under every     *)
(* option record.                                                          *)
(***************************************************************************)
MaxTokens == 3

Lexemes == { <<"(">>, <<")">>, <<"{">>, <<"}">>, <<";">>, <<",">>, <<"x">>, <<"u","i","n","t">> }

Contexts ==
    { <<>>, <<"c","o","n","t","r","a","c","t"," ","C"," ","{"," ">>, <<"c","o","n","t","r","a","c","t"," ","C"," ","i","s"," ">>, <<"f","u","n","c","t","i","o","n"," ","f","(",")"," ","{"," ">>,
      <<"f","u","n","c","t","i","o","n"," ","f","(">>, <<"f","u","n","c","t","i","o","n"," ","f","(",")"," ","{"," ","a","s","s","e","m","b","l","y"," ","{"," ">> }

SeqsUpTo(n) == UNION { [1..k -> Lexemes] : k \in 0..n }

Corpus ==
    { <<"p","r","a","g","m","a"," ","s","o","l","i","d","i","t","y"," ","^","0",".","8",".","0",";">>,
      <<"c","o","n","t","r","a","c","t"," ","T","e","s","t"," ","{"," ","i","n","v","a","l","i","d"," ","s","y","n","t","a","x"," ","h","e","r","e"," ","}">>,
      <<"c","o","n","t","r","a","c","t"," ","C"," ","{"," ","u","i","n","t"," ","x"," ","="," ","a"," ","+"," ","b"," ","*"," ","c",";"," ","}">>,
      <<"f","u","n","c","t","i","o","n"," ","f","(",")"," ","{"," ","(","a",","," ","b",")"," ","="," ","c",";"," ","}">>,
      <<"f","u","n","c","t","i","o","n"," ","f","(",")"," ","{"," ","x",".","y","(","1",")","[","2","]","+","+",";"," ","}">>,
      <<"f","u","n","c","t","i","o","n"," ","f","(",")"," ","{"," ","a","s","s","e","m","b","l","y"," ","{"," ","l","e","t"," ","x"," ",":","="," ","a","d","d","(","1",","," ","2",")"," ","}"," ","}">> }

Inputs ==
    Corpus \cup { ctx \o Join(seq, <<" ">>) :
                     ctx \in Contexts, seq \in SeqsUpTo(MaxTokens) }

Init == InitOn(Inputs, Options)

Spec == Init /\ [][Next]_vars

\* The tree that Parse has returned, if any.
Returned_tree == IF pc = "done" THEN ret.tree ELSE Nil

\* C1: in tolerant mode Build and Parse return a SourceUnit and a nil error,
\* whatever the input and however many errors were recorded.
TolerantAlwaysReturnsTree ==
    options.Tolerant =>
        /\ pc \in {"built", "done"} =>
              built.tree # Nil /\ built.tree.Type = "SourceUnit" /\ built.err = Nil
        /\ pc = "done" =>
              ret.tree # Nil /\ ret.tree.Type = "SourceUnit" /\ ret.err = Nil

\* Parse has returned a tree in tolerant mode although errors were recorded.
TolerantTreeWithErrors ==
    /\ pc = "done" /\ options.Tolerant /\ Len(errors) >= 2
    /\ ret.tree # Nil /\ ret.err = Nil

\* C2: in strict mode, once an error is recorded Build returns no tree and
\* the first recorded error, and Parse wraps that one error; with no error
\* they return the tree and a nil error; never both a tree and an error.
StrictReturnsFirstError ==
    /\ pc \in {"built", "done"} /\ ~options.Tolerant =>
          IF Len(errors) > 0
          THEN built = [tree |-> Nil, err |-> errors[1]]
          ELSE built.tree # Nil /\ built.err = Nil
    /\ pc = "done" /\ ~options.Tolerant =>
          IF Len(errors) > 0
          THEN ret = [tree |-> Nil, err |-> [Errors |-> <<errors[1]>>]]
          ELSE ret.tree # Nil /\ ret.err = Nil
    /\ pc = "done" => ~(ret.tree # Nil /\ ret.err # Nil)

\* Parse has returned the first of several errors in strict mode.
StrictFirstOfSeveralErrors ==
    /\ pc = "done" /\ ~options.Tolerant /\ Len(errors) >= 2
    /\ errors[1] # errors[2]
    /\ ret.err = [Errors |-> <<errors[1]>>]

(***************************************************************************)
(* Specification SpecLoops: Parse runs, in strict and in tolerant mode, on *)
(* texts that put the cursor inside each loop of the builder and go on     *)
(* with at most MaxLoopTokens lexemes, most of which the loop's body does  *)
(* not expect.                                                             *)
(***************************************************************************)
MaxLoopTokens == 3

LoopLexemes ==
    { <<"(">>, <<")">>, <<"{">>, <<"}">>, <<"[">>, <<";">>, <<",">>, <<".">>, <<"=">>, <<"x">>, <<"u","i","n","t">>,
      <<"c","a","s","e">> }

\* One text or more for every loop of helpers.go, statements.go and
\* expressions.go; each ends inside the loop named on its right, with the
\* cursor at the level of a declaration or of a statement.
LoopContexts ==
    { <<>>,                                        \* Build
      <<"p","r","a","g","m","a"," ">>,                                   \* parsePragmaDirective
      <<"i","m","p","o","r","t"," ","{"," ">>,                                 \* parseImportDirective
      <<"c","o","n","t","r","a","c","t"," ","C"," ","i","s"," ">>,                            \* base contracts
      <<"c","o","n","t","r","a","c","t"," ","C"," ","{"," ">>,                             \* contract body
      <<"c","o","n","t","r","a","c","t"," ","C"," ","{"," ","f","u","n","c","t","i","o","n"," ","f","(",")"," ">>,                \* parseFunctionModifiers
      <<"c","o","n","t","r","a","c","t"," ","C"," ","{"," ","f","u","n","c","t","i","o","n"," ","f","(",")"," ","o","v","e","r","r","i","d","e","("," ">>,      \* override list
      <<"c","o","n","t","r","a","c","t"," ","C"," ","{"," ","m","o","d","i","f","i","e","r"," ","m","(",")"," ">>,                \* parseModifierDefinition
      <<"c","o","n","t","r","a","c","t"," ","C"," ","{"," ","m","o","d","i","f","i","e","r"," ","m","(",")"," ","o","v","e","r","r","i","d","e","("," ">>,
      <<"c","o","n","t","r","a","c","t"," ","C"," ","{"," ","x","."," ">>,                          \* parseUserDefinedTypeName
      <<"c","o","n","t","r","a","c","t"," ","C"," ","{"," ","f","u","n","c","t","i","o","n","(",")"," ">>,                  \* parseFunctionTypeName
      <<"f","u","n","c","t","i","o","n"," ","f","("," ">>,                              \* parseParameterList
      <<"c","o","n","t","r","a","c","t"," ","C"," ","{"," ","u","i","n","t"," ">>,                        \* state variable modifiers
      <<"c","o","n","t","r","a","c","t"," ","C"," ","{"," ","u","i","n","t"," ","o","v","e","r","r","i","d","e","("," ">>,
      <<"s","t","r","u","c","t"," ","S"," ","{"," ">>,                               \* parseStructDefinition
      <<"e","n","u","m"," ","E"," ","{"," ">>,                                 \* parseEnumDefinition
      <<"e","v","e","n","t"," ","E","("," ">>,                                 \* parseEventDefinition
      <<"e","r","r","o","r"," ","E","("," ">>,                                 \* parseErrorDefinition
      <<"u","s","i","n","g"," ","{"," ">>,                                  \* parseUsingDirective
      <<"f","u","n","c","t","i","o","n"," ","f","(",")"," ","{"," ">>,                           \* parseBlock
      <<"f","u","n","c","t","i","o","n"," ","f","(",")"," ","{"," ","x","."," ">>,                        \* looksLikeVariableDeclaration
      <<"f","u","n","c","t","i","o","n"," ","f","(",")"," ","{"," ","t","r","y"," ","x","(",")"," ","{"," ","}"," ","c","a","t","c","h"," ">>,         \* catch clauses
      <<"f","u","n","c","t","i","o","n"," ","f","(",")"," ","{"," ","a","s","s","e","m","b","l","y"," ","{"," ">>,                \* parseAssemblyBlock
      <<"f","u","n","c","t","i","o","n"," ","f","(",")"," ","{"," ","a","s","s","e","m","b","l","y"," ","{"," ","l","e","t"," ">>,            \* parseAssemblyLocalDefinition
      <<"f","u","n","c","t","i","o","n"," ","f","(",")"," ","{"," ","a","s","s","e","m","b","l","y"," ","{"," ","s","w","i","t","c","h"," ","x"," ","c","a","s","e"," ">>,  \* parseAssemblySwitch
      <<"f","u","n","c","t","i","o","n"," ","f","(",")"," ","{"," ","a","s","s","e","m","b","l","y"," ","{"," ","f","u","n","c","t","i","o","n"," ","g","("," ">>,    \* assembly function arguments
      <<"f","u","n","c","t","i","o","n"," ","f","(",")"," ","{"," ","a","s","s","e","m","b","l","y"," ","{"," ","f","u","n","c","t","i","o","n"," ","g","(",")"," ","=",">"," ">>, \* assembly function returns
      <<"f","u","n","c","t","i","o","n"," ","f","(",")"," ","{"," ","a","s","s","e","m","b","l","y"," ","{"," ","x"," ">>,              \* assembly assignment
      <<"f","u","n","c","t","i","o","n"," ","f","(",")"," ","{"," ","a","s","s","e","m","b","l","y"," ","{"," ","g","("," ">>,             \* parseAssemblyCall
      <<"f","u","n","c","t","i","o","n"," ","f","(",")"," ","{"," ","("," ">> }                        \* speculative tuple parse

\* Texts that end inside one expression.
LoopContextsInExpression ==
    { <<"c","o","n","t","r","a","c","t"," ","C"," ","{"," ","u","i","n","t","["," ">>,                       \* array dimensions
      <<"f","u","n","c","t","i","o","n"," ","f","(",")"," ","{"," ","x","["," ">>,                        \* looksLikeVariableDeclaration
      <<"f","u","n","c","t","i","o","n"," ","f","(",")"," ","{"," ","t","r","y"," ","x"," ">>,                     \* parseTryCallMemberIndex
      <<"f","u","n","c","t","i","o","n"," ","f","(",")"," ","{"," ","x"," ","="," ","a"," ","+"," ">>,                   \* binary operator loops
      <<"f","u","n","c","t","i","o","n"," ","f","(",")"," ","{"," ","x","+","+"," ">>,                       \* parsePostfix
      <<"f","u","n","c","t","i","o","n"," ","f","(",")"," ","{"," ">> \o <<"\"", "a", "\"", " ">> }  \* parseStringLiteral

\* Texts that end inside an expression within an expression.
LoopContextsInNestedExpression ==
    { <<"f","u","n","c","t","i","o","n"," ","f","(",")"," ","{"," ","x","("," ">>,                        \* parseExpressionList
      <<"f","u","n","c","t","i","o","n"," ","f","(",")"," ","{"," ","x","(","{"," ">>,                       \* named arguments
      <<"f","u","n","c","t","i","o","n"," ","f","(",")"," ","{"," ","x","{"," ">>,                        \* parseFunctionCallOptions
      <<"f","u","n","c","t","i","o","n"," ","f","(",")"," ","{"," ","x"," ","="," ","("," ","a"," ",","," ">> }                \* parseTupleOrParenthesized

LoopLexemesUpTo(n) == UNION { [1..k -> LoopLexemes] : k \in 0..n }

\* A text goes on with fewer lexemes the more deeply nested it ends, so that
\* every input nests at most n expressions.
LoopInputsUpTo(n) ==
    Corpus
        \cup { ctx \o Join(seq, <<" ">>) :
                 ctx \in LoopContexts, seq \in LoopLexemesUpTo(n) }
        \cup { ctx \o Join(seq, <<" ">>) :
                 ctx \in LoopContextsInExpression, seq \in LoopLexemesUpTo(n - 1) }
        \cup { ctx \o Join(seq, <<" ">>) :
                 ctx \in LoopContextsInNestedExpression,
                 seq \in LoopLexemesUpTo(n - 2) }

InitLoops ==
    InitOn(LoopInputsUpTo(MaxLoopTokens), { o \in Options : ~o.Loc /\ ~o.Range })

SpecLoops == InitLoops /\ [][Next]_vars

\* C3: no loop of the parser goes round without moving the cursor forward,
\* so Build never runs for ever; in tolerant mode, where no error ends the
\* source-unit loop, Build returns with the cursor on EOF.
EveryLoopAdvances ==
    /\ ~spin
    /\ pc # "spin"
    /\ (pc = "built" /\ options.Tolerant) => isAtEnd(Builder)

\* The member loops of a struct and of an enum have ended on lexemes they do
\* not expect, and Build has returned with the cursor on EOF.
StructLoopEndedAfterErrors ==
    /\ pc = "built" /\ options.Tolerant
    /\ input = <<"s","t","r","u","c","t"," ","S"," ","{"," ",";"," ",")"," ","u","i","n","t">>
    /\ Len(errors) > 0
    /\ isAtEnd(Builder)

EnumLoopEndedAfterErrors ==
    /\ pc = "built" /\ options.Tolerant
    /\ input = <<"e","n","u","m"," ","E"," ","{"," ",","," ","x"," ","(">>
    /\ Len(errors) > 0
    /\ isAtEnd(Builder)

\* Build has ended with the cursor on EOF after errors, on an input whose
\* statement was first read as a tuple declaration and then read again.
BuildEndedAfterBacktracking ==
    /\ pc = "built" /\ built.tree # Nil
    /\ HasPrefix(input, <<"f","u","n","c","t","i","o","n"," ","f","(",")"," ","{"," ","("," ">>)
    /\ Len(errors) > 0
    /\ isAtEnd(Builder)

\* C6 as claimed: in every tree returned, a loc ends at or after its start and
\* a range is ordered and within the input.
LocationsOrdered ==
    \A n \in Nodes(Returned_tree) :
        /\ n.Loc # Nil =>
              \/ n.Loc.end.line > n.Loc.start.line
              \/ /\ n.Loc.end.line = n.Loc.start.line
                 /\ n.Loc.end.column >= n.Loc.start.column
        /\ n.Range # Nil =>
              n.Range.lo <= n.Range.hi /\ n.Range.hi <= Len(input)

\* C7 as claimed: with the loc option every node of the returned tree has a
\* loc, and with the range option every node has a range.
EveryNodeLocated ==
    \A n \in Nodes(Returned_tree) :
        /\ options.Loc => n.Loc # Nil
        /\ options.Range => n.Range # Nil

\* C8: a node has a loc only if the loc option is set and a range only if the
\* range option is set, whatever the other option is.
LocationOnlyIfRequested ==
    \A n \in Nodes(Returned_tree) :
        /\ ~options.Loc => n.Loc = Nil
        /\ ~options.Range => n.Range = Nil

\* A tree whose declarations have a loc and no range, under loc without range.
LocWithoutRange ==
    /\ options.Loc /\ ~options.Range
    /\ \E n \in Nodes(Returned_tree) :
          n.Type = "VariableDeclaration" /\ n.Loc # Nil /\ n.Range = Nil

(***************************************************************************)
(* Specification SpecOperators: Parse runs on a state variable whose       *)
(* initial value is a op1 b op2 c, for every two operators of the          *)
(* precedence table, or a chain of two conditionals.                       *)
(***************************************************************************)
OperatorsOf(level, lexemes) == { [lexeme |-> l, level |-> level] : l \in lexemes }

\* The binary productions of the precedence table with their levels.
Operators ==
    OperatorsOf(1, { <<"=">>, <<"+","=">>, <<"-","=">>, <<"*","=">>, <<"/","=">>, <<"%","=">>, <<"&","=">>, <<"|","=">>,
                     <<"^","=">>, <<"<","<","=">>, <<">",">","=">>, <<">",">",">","=">> })
        \cup OperatorsOf(3, { <<"|","|">> })
        \cup OperatorsOf(4, { <<"&","&">> })
        \cup OperatorsOf(5, { <<"=","=">>, <<"!","=">> })
        \cup OperatorsOf(6, { <<"<">>, <<"<","=">>, <<">">>, <<">","=">> })
        \cup OperatorsOf(7, { <<"|">> })
        \cup OperatorsOf(8, { <<"^">> })
        \cup OperatorsOf(9, { <<"&">> })
        \cup OperatorsOf(10, { <<"<","<">>, <<">",">">>, <<">",">",">">> })
        \cup OperatorsOf(11, { <<"+">>, <<"-">> })
        \cup OperatorsOf(12, { <<"*">>, <<"/">>, <<"%">> })
        \cup OperatorsOf(13, { <<"*","*">> })

\* The levels of the table that nest to the right.
RightAssociative == {1, 13}

OperatorInput(op1, op2) ==
    <<"u","i","n","t"," ","x"," ","="," ","a"," ">> \o op1 \o <<" ","b"," ">> \o op2 \o <<" ","c",";">>

ConditionalInput == <<"u","i","n","t"," ","x"," ","="," ","a"," ","?"," ","b"," ",":"," ","c"," ","?"," ","d"," ",":"," ","e",";">>

OperatorInputs ==
    { OperatorInput(p.lexeme, q.lexeme) : p \in Operators, q \in Operators }
        \cup { ConditionalInput }

InitOperators == InitOn(OperatorInputs, Options)

SpecOperators == InitOperators /\ [][Next]_vars

\* The initial value of the one state variable of the returned tree.
InitialValue ==
    IF Returned_tree # Nil /\ Len(Returned_tree.Children) = 1
       /\ Returned_tree.Children[1].Type = "StateVariableDeclaration"
    THEN Returned_tree.Children[1].InitialValue
    ELSE Nil

\* a op1 (b op2 c)
RightNested(op1, op2) ==
    BinaryOperation(op1, Identifier(<<"a">>),
                    BinaryOperation(op2, Identifier(<<"b">>), Identifier(<<"c">>)))

\* (a op1 b) op2 c
LeftNested(op1, op2) ==
    BinaryOperation(op2,
                    BinaryOperation(op1, Identifier(<<"a">>), Identifier(<<"b">>)),
                    Identifier(<<"c">>))

\* C4: an operator of a higher level binds tighter than one of a lower level,
\* on whichever side it stands.
PrecedenceFollowsTable ==
    pc = "done" =>
        \A p \in Operators, q \in Operators :
            p.level < q.level =>
                /\ input = OperatorInput(p.lexeme, q.lexeme) =>
                      InitialValue = RightNested(p.lexeme, q.lexeme)
                /\ input = OperatorInput(q.lexeme, p.lexeme) =>
                      InitialValue = LeftNested(q.lexeme, p.lexeme)

\* a + b * c has been parsed as a + (b * c).
SumOfProductParsed ==
    /\ pc = "done" /\ input = OperatorInput(<<"+">>, <<"*">>)
    /\ InitialValue = RightNested(<<"+">>, <<"*">>)

\* C5: two operators of one level nest to the right on the levels of
\* assignment and of **, and to the left on every other level; an assignment
\* is a BinaryOperation with the operator's lexeme; conditionals nest to the
\* right.
AssociativityFollowsTable ==
    pc = "done" =>
        /\ \A p \in Operators, q \in Operators :
              p.level = q.level /\ input = OperatorInput(p.lexeme, q.lexeme) =>
                  InitialValue = IF p.level \in RightAssociative
                                 THEN RightNested(p.lexeme, q.lexeme)
                                 ELSE LeftNested(p.lexeme, q.lexeme)
        /\ input = ConditionalInput =>
              InitialValue =
                  [Type |-> "Conditional", Loc |-> Nil, Range |-> Nil,
                   Condition |-> Identifier(<<"a">>),
                   TrueExpression |-> Identifier(<<"b">>),
                   FalseExpression |->
                       [Type |-> "Conditional", Loc |-> Nil, Range |-> Nil,
                        Condition |-> Identifier(<<"c">>),
                        TrueExpression |-> Identifier(<<"d">>),
                        FalseExpression |-> Identifier(<<"e">>)]]

\* a ** b ** c has been parsed as a ** (b ** c).
PowerOfPowerParsed ==
    /\ pc = "done" /\ input = OperatorInput(<<"*","*">>, <<"*","*">>)
    /\ InitialValue = RightNested(<<"*","*">>, <<"*","*">>)

(***************************************************************************)
(* Specification SpecAssembly: Parse runs on a function whose body is an   *)
(* assembly block with one local definition.                               *)
(***************************************************************************)
MaxNames == 2

AssemblyNames == { <<"x">>, <<"y">> }

NameLists == UNION { [1..k -> AssemblyNames] : k \in 1..MaxNames }

AssemblyExpressions == { <<"a","d","d","(","1",","," ","2",")">>, <<"1">>, <<"y">>, <<"m","l","o","a","d","(","x",")">> }

AssemblyInput(names, e) ==
    <<"f","u","n","c","t","i","o","n"," ","f","(",")"," ","{"," ","a","s","s","e","m","b","l","y"," ","{"," ","l","e","t"," ">> \o Join(names, <<","," ">>) \o <<" ",":","="," ">> \o e
        \o <<" ","}"," ","}">>

AssemblyInputs ==
    { AssemblyInput(names, e) : names \in NameLists, e \in AssemblyExpressions }

InitAssembly == InitOn(AssemblyInputs, Options)

SpecAssembly == InitAssembly /\ [][Next]_vars

\* The operations of the assembly block of the returned tree.
Operations ==
    IF Returned_tree # Nil /\ Len(Returned_tree.Children) = 1
       /\ Returned_tree.Children[1].Type = "FunctionDefinition"
       /\ Returned_tree.Children[1].Body # Nil
       /\ Len(Returned_tree.Children[1].Body.Statements) = 1
       /\ Returned_tree.Children[1].Body.Statements[1].Type = "InlineAssembly"
    THEN Returned_tree.Children[1].Body.Statements[1].Body.Operations
    ELSE <<>>

\* C9 as claimed: let names := e gives one AssemblyLocalDefinition with the
\* names and the expression, and for add(1, 2) the expression is the call.
LocalDefinitionHoldsExpression ==
    pc = "done" =>
        \A names \in NameLists, e \in AssemblyExpressions :
            input = AssemblyInput(names, e) =>
                /\ Len(Operations) = 1
                /\ Operations[1].Type = "AssemblyLocalDefinition"
                /\ [i \in 1..Len(Operations[1].Names) |->
                        Operations[1].Names[i].Name] = names
                /\ Operations[1].Expression # Nil
                /\ e = <<"a","d","d","(","1",","," ","2",")">> =>
                      /\ Operations[1].Expression.Type = "AssemblyCall"
                      /\ Operations[1].Expression.FunctionName = <<"a","d","d">>
                      /\ [i \in 1..Len(Operations[1].Expression.Arguments) |->
                            <<Operations[1].Expression.Arguments[i].Kind,
                              Operations[1].Expression.Arguments[i].Value>>]
                            = << <<<<"n","u","m","b","e","r">>, <<"1">>>>, <<<<"n","u","m","b","e","r">>, <<"2">>>> >>

\* What the program gives for let x := add(1, 2): a definition without an
\* expression, then the call as an operation of its own.
LocalDefinitionSplit ==
    /\ pc = "done" /\ input = AssemblyInput(<<<<"x">>>>, <<"a","d","d","(","1",","," ","2",")">>)
    /\ Len(Operations) = 2
    /\ Operations[1].Type = "AssemblyLocalDefinition"
    /\ Operations[1].Expression = Nil
    /\ Operations[2].Type = "AssemblyCall"
    /\ Operations[2].FunctionName = <<"a","d","d">>

(***************************************************************************)
(* Specification SpecPragma: Parse runs on one pragma directive.           *)
(***************************************************************************)
PragmaNames == { <<"s","o","l","i","d","i","t","y">>, <<"a","b","i","c","o","d","e","r">>, <<"e","x","p","e","r","i","m","e","n","t","a","l">> }

PragmaOperators == { <<>>, <<"^">>, <<">","=">>, <<"<">> }

PragmaVersions == { <<"0",".","8",".","0">>, <<"0",".","8">>, <<"1",".","2",".","3">>, <<"v","2">> }

PragmaSpacing == { <<>>, <<" ">> }

PragmaInput(name, op, spacing, version) ==
    <<"p","r","a","g","m","a"," ">> \o name \o <<" ">> \o op \o spacing \o version \o <<";">>

PragmaInputs ==
    { PragmaInput(name, op, spacing, version) :
         name \in PragmaNames, op \in PragmaOperators,
         spacing \in PragmaSpacing, version \in PragmaVersions }

InitPragma == InitOn(PragmaInputs, Options)

SpecPragma == InitPragma /\ [][Next]_vars

\* C10 as claimed: the directive's name is the token after pragma and its
\* value the lexemes up to the semicolon joined by single spaces, so that
\* pragma solidity ^0.8.0; has the value "^ 0.8.0".
PragmaValueJoinsLexemes ==
    pc = "done" =>
        \A name \in PragmaNames, op \in PragmaOperators,
           spacing \in PragmaSpacing, version \in PragmaVersions :
            input = PragmaInput(name, op, spacing, version) =>
                /\ ret.tree # Nil
                /\ Len(ret.tree.Children) = 1
                /\ ret.tree.Children[1].Type = "PragmaDirective"
                /\ ret.tree.Children[1].Name = name
                /\ ret.tree.Children[1].Value =
                      Join(SelectSeq(<<op, version>>, LAMBDA s : s # <<>>), <<" ">>)

\* What the program gives for pragma solidity ^0.8.0;.
PragmaVersionSplit ==
    /\ pc = "done" /\ input = <<"p","r","a","g","m","a"," ","s","o","l","i","d","i","t","y"," ","^","0",".","8",".","0",";">>
    /\ ret.tree # Nil
    /\ ret.tree.Children[1].Value = <<"^"," ","0",".","8"," ",".","0">>
(***************************************************************************)
(* Specification SpecScan: Parse runs on every text of at most MaxBytes    *)
(* bytes over an alphabet that holds a letter, a digit, the quote, blanks, *)
(* the comment openers, operators and two bytes no token starts with.      *)
(***************************************************************************)
MaxBytes == 3

Bytes == { "a", "1", ".", "\"", "#", "@", " ", "\n", "/", "*", "=" }

BytesUpTo(n) == UNION { [1..k -> Bytes] : k \in 0..n }

ScanOptions == { o \in Options : ~o.Loc /\ ~o.Range }

InitScan == InitOn(BytesUpTo(MaxBytes), ScanOptions)

SpecScan == InitScan /\ [][Next]_vars

\* The bytes one-character operators and punctuation are made of (6.1).
Punctuation ==
    { "(", ")", "[", "]", "{", "}", ":", ";", ".", ",", "?", "=", "<", ">",
      "!", "&", "|", "^", "~", "+", "-", "*", "/", "%" }

\* A byte that starts no identifier, number, string or operator.
StartsNoToken(ch) ==
    /\ ch \notin Lower \cup Upper \cup {"_", "$"}
    /\ ch \notin Digit
    /\ ch \notin {"\"", "'"}
    /\ ch \notin Punctuation

\* The scanner standing just after token tok, which ends on the line it
\* began on.
ScannerAfter(tok) ==
    [pos |-> tok.End, line |-> tok.Line,
     column |-> tok.Column + (tok.End - tok.Start)]

\* C11: Tokenize returns a sequence that ends with EOF and holds no other
\* EOF; every token but EOF takes at least one byte and begins where the one
\* before it ended or later, so there are at most len(input) + 1 tokens; a
\* token that begins at a byte no token starts with is one ILLEGAL token for
\* that byte, and the next token is what NextToken gives from the next byte.
ScanEndsWithOneEOF ==
    pc # "new" =>
        /\ Len(tokens) >= 1
        /\ Len(tokens) <= Len(input) + 1
        /\ tokens[Len(tokens)].Type = "EOF"
        /\ \A i \in 1..(Len(tokens) - 1) :
              /\ tokens[i].Type # "EOF"
              /\ tokens[i].End > tokens[i].Start
              /\ tokens[i].End <= Len(input)
              /\ tokens[i + 1].Start >= tokens[i].End
              /\ (tokens[i].Type = "ILLEGAL"
                    <=> StartsNoToken(input[tokens[i].Start + 1]))
              /\ tokens[i].Type = "ILLEGAL" =>
                    /\ tokens[i].End = tokens[i].Start + 1
                    /\ tokens[i].Value = <<input[tokens[i].Start + 1]>>
                    /\ tokens[i + 1] = NextToken(ScannerAfter(tokens[i])).tok

\* An ILLEGAL token is followed by the token of the bytes after it.
IllegalByteThenToken ==
    /\ pc # "new"
    /\ Len(tokens) = 3
    /\ tokens[1].Type = "ILLEGAL"
    /\ tokens[2].Type = "IDENTIFIER"
    /\ tokens[3].Type = "EOF"

(***************************************************************************)
(* Specification SpecOperatorScan: Parse runs on every text of at most     *)
(* MaxOperatorBytes bytes made of operator bytes and a letter, and on each  *)
(* operator of the table followed by each byte of punctuation.             *)
(***************************************************************************)
MaxOperatorBytes == 4

OperatorBytes == { ">", "<", "=", "-", "*", "+", "&", "/", "a" }

\* The operator and punctuation table of 6.1.
OperatorTable ==
    { <<">",">",">","=">>, <<">",">",">">>, <<">",">","=">>, <<"<","<","=">>,
      <<"=",">">>, <<"-",">">>, <<"=","=">>, <<"!","=">>, <<"<","=">>, <<">","=">>, <<"&","&">>, <<"|","|">>, <<"<","<">>, <<">",">">>,
      <<"*","*">>, <<"+","+">>, <<"-","-">>, <<"+","=">>, <<"-","=">>, <<"*","=">>, <<"/","=">>, <<"%","=">>, <<"&","=">>, <<"|","=">>,
      <<"^","=">> }
    \cup { <<ch>> : ch \in Punctuation }

\* Every short text over OperatorBytes, and every entry of the table alone,
\* after a blank and before each byte of punctuation.
OperatorTexts ==
    UNION { [1..k -> OperatorBytes] : k \in 0..MaxOperatorBytes }
        \cup OperatorTable
        \cup { <<" ">> \o op : op \in OperatorTable }
        \cup { op \o <<ch>> : op \in OperatorTable, ch \in Punctuation }

InitOperatorScan ==
    InitOn(OperatorTexts, {[Tolerant |-> TRUE, Loc |-> FALSE, Range |-> FALSE]})

SpecOperatorScan == InitOperatorScan /\ [][Next]_vars

\* The longest entry of the table that the text begins with.
LongestOperator(text) ==
    CHOOSE op \in OperatorTable :
        /\ HasPrefix(text, op)
        /\ \A other \in OperatorTable :
              HasPrefix(text, other) => Len(other) <= Len(op)

\* The kinds of token that are not operators or punctuation.
WordKinds == { "EOF", "ILLEGAL", "IDENTIFIER", "NUMBER", "HEX_NUMBER", "STRING" }
                 \cup { keywords[w] : w \in DOMAIN keywords }
                 \cup { "INT", "UINT", "BYTES_N", "FIXED", "UFIXED",
                        "FIXED_N", "UFIXED_N" }

\* C12: a token that begins at an operator byte is the longest entry of the
\* operator table that the rest of the input begins with, also when that
\* entry is the end of the input.
OperatorIsLongestMatch ==
    pc # "new" =>
        \A i \in 1..Len(tokens) :
            /\ tokens[i].Type \notin WordKinds =>
                  /\ tokens[i].Value = LongestOperator(Drop(input, tokens[i].Start))
                  /\ tokens[i].End = tokens[i].Start + Len(tokens[i].Value)
            /\ (tokens[i].Type \notin {"EOF", "NUMBER"}
                  /\ input[tokens[i].Start + 1] \in Punctuation) =>
                  tokens[i].Type \notin WordKinds

\* ">>>=" scanned as one token at the end of the input.
LongestOperatorAtEnd ==
    /\ pc # "new"
    /\ Len(tokens) = 2
    /\ tokens[1].Value = <<">",">",">","=">>
    /\ tokens[1].End = Len(input)

(***************************************************************************)
(* Specification SpecWords: Parse runs on one identifier-shaped lexeme:    *)
(* an entry of the keyword table, or a stem followed by at most MaxSuffix  *)
(* bytes out of two digits, "x" and a letter.                              *)
(***************************************************************************)
MaxSuffix == 3

Stems ==
    { <<"i","n","t">>, <<"u","i","n","t">>, <<"b","y","t","e","s">>, <<"b","y","t","e">>, <<"f","i","x","e","d">>, <<"u","f","i","x","e","d">>, <<"b","o","o","l">>,
      <<"f","r","o","m">>, <<"x">>, <<"_">>, <<"$">> }

SuffixBytes == { "1", "8", "x", "a" }

Suffixes == UNION { [1..k -> SuffixBytes] : k \in 0..MaxSuffix }

Words == DOMAIN keywords \cup { stem \o suffix : stem \in Stems, suffix \in Suffixes }

InitWords ==
    InitOn(Words, {[Tolerant |-> TRUE, Loc |-> FALSE, Range |-> FALSE]})

SpecWords == InitWords /\ [][Next]_vars

\* A possibly empty run of decimal digits.
Digits(s) == \A i \in 1..Len(s) : s[i] \in Digit

\* word is stem followed by <M>x<N>, M and N non-empty runs of digits.
Sized(word, stem) ==
    /\ HasPrefix(word, stem)
    /\ \E k \in (Len(stem) + 2)..(Len(word) - 1) :
          /\ word[k] = "x"
          /\ Digits(SubSeq(word, Len(stem) + 1, k - 1))
          /\ Digits(SubSeq(word, k + 1, Len(word)))

\* The kind the rules of 4.1 give an identifier-shaped lexeme.
KindOfWord(word) ==
    IF word \in DOMAIN keywords THEN keywords[word]
    ELSE IF HasPrefix(word, <<"i","n","t">>) /\ Digits(Drop(word, 3)) THEN "INT"
    ELSE IF HasPrefix(word, <<"u","i","n","t">>) /\ Digits(Drop(word, 4)) THEN "UINT"
    ELSE IF HasPrefix(word, <<"b","y","t","e","s">>) /\ Len(word) > 5 /\ Digits(Drop(word, 5))
         THEN "BYTES_N"
    ELSE IF word = <<"f","i","x","e","d">> THEN "FIXED"
    ELSE IF word = <<"u","f","i","x","e","d">> THEN "UFIXED"
    ELSE IF Sized(word, <<"f","i","x","e","d">>) THEN "FIXED_N"
    ELSE IF Sized(word, <<"u","f","i","x","e","d">>) THEN "UFIXED_N"
    ELSE "IDENTIFIER"

\* C13: an identifier-shaped lexeme is one token whose kind the fixed rules
\* give: the keyword table, then int/uint with digits, bytes with at least
\* one digit, fixed/ufixed bare or with <M>x<N>, and IDENTIFIER otherwise,
\* whatever the size.
WordKindFollowsRules ==
    pc # "new" =>
        /\ Len(tokens) = 2
        /\ tokens[1].Value = input
        /\ tokens[1].Type = KindOfWord(input)
        /\ tokens[2].Type = "EOF"

\* A sized fixed-point type and a size no Solidity type has.
SizedWordsScanned ==
    /\ pc # "new"
    /\ input \in { <<"u","f","i","x","e","d","8","x","1">>, <<"i","n","t","1","1","1">> }
    /\ tokens[1].Type \in { "UFIXED_N", "INT" }

(***************************************************************************)
(* Specification SpecContextual: Parse runs on a function, an event and a  *)
(* custom error with one named parameter, and on a state variable with an  *)
(* initial value, the name or the value being a contextual keyword or an   *)
(* ordinary identifier.                                                    *)
(***************************************************************************)
ContextualKeywords ==
    { <<"f","r","o","m">>, <<"e","r","r","o","r">>, <<"r","e","v","e","r","t">>, <<"g","l","o","b","a","l">>, <<"t","r","a","n","s","i","e","n","t">>, <<"l","a","y","o","u","t">>, <<"a","t">> }

ParameterNames == ContextualKeywords \cup { <<"x">>, <<"t","o">> }

FunctionWith(name) == <<"f","u","n","c","t","i","o","n"," ","f","(","u","i","n","t"," ">> \o name \o <<")"," ","{","}">>

EventWith(name) == <<"e","v","e","n","t"," ","E","(","u","i","n","t"," ">> \o name \o <<")",";">>

ErrorWith(name) == <<"e","r","r","o","r"," ","E","(","u","i","n","t"," ">> \o name \o <<")",";">>

PrimaryWith(name) == <<"c","o","n","t","r","a","c","t"," ","C"," ","{"," ","u","i","n","t"," ","x"," ","="," ">> \o name \o <<";"," ","}">>

ContextualInputs ==
    { FunctionWith(name) : name \in ParameterNames }
        \cup { EventWith(name) : name \in ParameterNames }
        \cup { ErrorWith(name) : name \in ParameterNames }
        \cup { PrimaryWith(name) : name \in ParameterNames }

InitContextual == InitOn(ContextualInputs, Options)

SpecContextual == InitContextual /\ [][Next]_vars

\* The tree has an Identifier node of the given name.
HasIdentifier(tree, name) ==
    \E n \in Nodes(tree) : n.Type = "Identifier" /\ n.Name = name

\* The text is made around the given name and has been parsed without error
\* into a tree that holds the name as an Identifier.
AcceptedIn(text, name) ==
    (pc = "done" /\ input = text) =>
        /\ Len(errors) = 0
        /\ ret.err = Nil
        /\ HasIdentifier(ret.tree, name)

\* C14: a contextual keyword is scanned as its own kind, and it is accepted
\* without error as the name of a function, event or custom-error parameter
\* and as a primary expression, giving the Identifier node an ordinary
\* identifier gives.
ContextualKeywordsAccepted ==
    /\ pc # "new" =>
          \A i \in 1..Len(tokens) :
              tokens[i].Value \in ContextualKeywords =>
                  tokens[i].Type = keywords[tokens[i].Value]
                  /\ tokens[i].Type # "IDENTIFIER"
    /\ \A name \in ParameterNames :
          /\ AcceptedIn(FunctionWith(name), name)
          /\ AcceptedIn(EventWith(name), name)
          /\ AcceptedIn(ErrorWith(name), name)
          /\ AcceptedIn(PrimaryWith(name), name)

\* What holds of the code: the same without the custom-error parameter.
ContextualKeywordsAcceptedElsewhere ==
    \A name \in ParameterNames :
        /\ AcceptedIn(FunctionWith(name), name)
        /\ AcceptedIn(EventWith(name), name)
        /\ AcceptedIn(PrimaryWith(name), name)
        /\ name \notin ContextualKeywords => AcceptedIn(ErrorWith(name), name)

\* A custom error whose parameter is named by a contextual keyword has been
\* parsed, and an error was recorded.
ErrorParameterRefused ==
    /\ pc = "done"
    /\ \E name \in ContextualKeywords : input = ErrorWith(name)
    /\ Len(errors) > 0

(***************************************************************************)
(* Specification SpecStrings: Parse runs on a state variable whose initial *)
(* value is a run of at most MaxParts string literals, next to each other  *)
(* or a blank or a newline apart, and on one whose string literal has no   *)
(* closing quote before the end of the line.                               *)
(***************************************************************************)
MaxParts == 3

StringValues == { <<>>, <<"a","b","c">>, <<"d">> }

PartLists == UNION { [1..k -> StringValues] : k \in 1..MaxParts }

Separators == { <<>>, <<" ">>, <<"\n">> }

Quoted(value) == <<"\"">> \o value \o <<"\"">>

StringInput(parts, sep) ==
    <<"s","t","r","i","n","g"," ","s"," ","="," ">> \o Join([i \in DOMAIN parts |-> Quoted(parts[i])], sep) \o <<";">>

UnterminatedInput(value) == <<"s","t","r","i","n","g"," ","s"," ","="," ">> \o <<"\"">> \o value \o <<"\n">> \o <<";">>

StringInputs ==
    { StringInput(parts, sep) : parts \in PartLists, sep \in Separators }
        \cup { UnterminatedInput(value) : value \in StringValues }

InitStrings == InitOn(StringInputs, { o \in Options : ~o.Loc /\ ~o.Range })

SpecStrings == InitStrings /\ [][Next]_vars

\* C15: a run of adjacent string-literal tokens in primary position gives one
\* StringLiteral whose parts are the tokens' values in source order and whose
\* value is the first part.
AdjacentStringsAreOneLiteral ==
    \A parts \in PartLists, sep \in Separators :
        (pc = "done" /\ input = StringInput(parts, sep)) =>
            /\ Len(errors) = 0
            /\ ret.tree # Nil
            /\ Len(ret.tree.Children) = 1
            /\ ret.tree.Children[1].InitialValue.Type = "StringLiteral"
            /\ ret.tree.Children[1].InitialValue.Parts = parts
            /\ ret.tree.Children[1].InitialValue.Value = parts[1]

\* "abc" "d" has been parsed into one literal of two parts.
TwoStringsOneLiteral ==
    /\ pc = "done"
    /\ input = StringInput(<<<<"a","b","c">>, <<"d">>>>, <<" ">>)
    /\ ret.tree.Children[1].InitialValue.Parts = <<<<"a","b","c">>, <<"d">>>>

\* C16: the token of a string literal with no closing quote before the end of
\* the line ends at the newline, and in strict mode an error is reported at
\* the place the literal starts.
UnterminatedStringReported ==
    \A value \in StringValues :
        input = UnterminatedInput(value) =>
            /\ pc # "new" =>
                  /\ tokens[4].Type = "STRING"
                  /\ tokens[4].Value = value
                  /\ tokens[4].Start = 11
                  /\ tokens[4].End = 12 + Len(value)
                  /\ input[tokens[4].End + 1] = "\n"
            /\ (pc = "done" /\ ~options.Tolerant) =>
                  /\ Len(errors) > 0
                  /\ errors[1].Line = 1
                  /\ errors[1].Column = 11
                  /\ ret.tree = Nil
                  /\ ret.err # Nil

\* A string literal without its closing quote has been parsed in strict mode
\* and no error was recorded.
UnterminatedStringAccepted ==
    /\ pc = "done"
    /\ ~options.Tolerant
    /\ input = UnterminatedInput(<<"a","b","c">>)
    /\ tokens[4].End = 15
    /\ Len(errors) = 0
    /\ ret.tree # Nil
    /\ ret.tree.Children[1].InitialValue.Parts = <<<<"a","b","c">>>>

(***************************************************************************)
(* Specification SpecValidate: the validate command runs on the texts of   *)
(* Spec.                                                                   *)
(***************************************************************************)
InitValidate == InitOn(Inputs, {validateOptions})

NextValidate == Next \/ runValidate

SpecValidate == InitValidate /\ [][NextValidate]_vars

\* C17: validate ends with exit code 1 and the syntax errors listed whenever
\* parsing recorded an error, and with "Syntax OK" and exit code 0 only when
\* parsing recorded none.
ValidateFailsOnSyntaxError ==
    pc = "exited" =>
        IF Len(errors) > 0
        THEN /\ process.exit = 1
             /\ Len(process.stderr) = 1 + Len(errors)
             /\ process.stdout = <<>>
        ELSE /\ process.exit = 0
             /\ process.stdout = <<<<"S","y","n","t","a","x"," ","O","K">>>>

\* validate has printed "Syntax OK" and ended with exit code 0 on a text whose
\* parse recorded errors.
ValidateAcceptsSyntaxErrors ==
    /\ pc = "exited"
    /\ input = <<"c","o","n","t","r","a","c","t"," ","T","e","s","t"," ","{"," ","i","n","v","a","l","i","d"," ","s","y","n","t","a","x"," ","h","e","r","e"," ","}">>
    /\ Len(errors) > 0
    /\ process.exit = 0
    /\ process.stdout = <<<<"S","y","n","t","a","x"," ","O","K">>>>

(***************************************************************************)
(* Specification SpecVersions: two versions whose parts are at most        *)
(* MaxPart are compared.                                                   *)
(***************************************************************************)
MaxPart == 2

Versions == [Major : 0..MaxPart, Minor : 0..MaxPart, Patch : 0..MaxPart]

InitVersions ==
    /\ comparison \in [v : Versions, other : Versions, result : {Nil}]
    /\ walked = Nil
    /\ input = <<>>
    /\ options = [Tolerant |-> FALSE, Loc |-> FALSE, Range |-> FALSE]
    /\ tokens = <<>>
    /\ pos = 0
    /\ errors = <<>>
    /\ spin = FALSE
    /\ sourceUnit = Nil
    /\ pc = "new"
    /\ built = [tree |-> Nil, err |-> Nil]
    /\ ret = [tree |-> Nil, err |-> Nil]
    /\ process = Running

NextVersions == CompareVersions

SpecVersions == InitVersions /\ [][NextVersions]_vars

\* (Major, Minor, Patch) of a comes before that of b in lexicographic order.
Before(a, b) ==
    \/ a.Major < b.Major
    \/ a.Major = b.Major /\ a.Minor < b.Minor
    \/ a.Major = b.Major /\ a.Minor = b.Minor /\ a.Patch < b.Patch

\* C18: Compare is the three-way lexicographic comparison on (Major, Minor,
\* Patch): -1, 0 or 1, the opposite when the versions are exchanged, 0 just
\* when the three parts are equal; each of the five tests is the test of that
\* name on Compare's result.
CompareIsLexicographic ==
    (comparison # Nil /\ comparison.result # Nil) =>
        LET v == comparison.v
            other == comparison.other
            r == comparison.result
        IN  /\ r.Compare \in {-1, 0, 1}
            /\ r.Compare = -1 <=> Before(v, other)
            /\ r.Compare = 1 <=> Before(other, v)
            /\ r.Compare = 0 <=> (/\ v.Major = other.Major
                                  /\ v.Minor = other.Minor
                                  /\ v.Patch = other.Patch)
            /\ r.Compare = -r.Reverse
            /\ r.LessThan <=> r.Compare < 0
            /\ r.LessThanOrEqual <=> r.Compare <= 0
            /\ r.GreaterThan <=> r.Compare > 0
            /\ r.GreaterThanOrEqual <=> r.Compare >= 0
            /\ r.Equal <=> r.Compare = 0

\* Two versions that differ in Patch alone have been compared.
PatchDecides ==
    /\ comparison # Nil
    /\ comparison.result # Nil
    /\ comparison.v.Major = comparison.other.Major
    /\ comparison.v.Minor = comparison.other.Minor
    /\ comparison.v.Patch < comparison.other.Patch
    /\ comparison.result.Compare = -1
    /\ comparison.result.LessThan

(***************************************************************************)
(* Specification SpecRecovery: Parse runs on every text of at most         *)
(* MaxRecoveryTokens lexemes out of ";", a name, two keywords that start a *)
(* top-level construct, "(" and "}".  synchronize and expect are applied   *)
(* at every cursor position of the token sequence.                         *)
(***************************************************************************)
MaxRecoveryTokens == 4

RecoveryLexemes == { <<";">>, <<"x">>, <<"f","u","n","c","t","i","o","n">>, <<"c","o","n","t","r","a","c","t">>, <<"(">>, <<"}">> }

RecoveryInputs ==
    { Join(seq, <<" ">>) :
        seq \in UNION { [1..k -> RecoveryLexemes] : k \in 0..MaxRecoveryTokens } }

InitRecovery == InitOn(RecoveryInputs, { o \in Options : ~o.Loc /\ ~o.Range })

SpecRecovery == InitRecovery /\ [][Next]_vars

\* The kinds of token that start a top-level construct (4.3).
Starters ==
    { "CONTRACT", "INTERFACE", "LIBRARY", "FUNCTION", "STRUCT", "ENUM",
      "EVENT", "ERROR", "PRAGMA", "IMPORT", "USING" }

\* With q tokens consumed, the token consumed last is ";" or the next token
\* starts a top-level construct or is EOF.
Boundary(q) ==
    \/ q >= 1 /\ tokens[q].Type = "SEMICOLON"
    \/ tokens[q + 1].Type \in Starters \cup {"EOF"}

\* The first boundary after at least one token is consumed from cursor p.
FirstBoundaryAfter(p) ==
    CHOOSE q \in (p + 1)..(Len(tokens) - 1) :
        Boundary(q) /\ \A q2 \in (p + 1)..(q - 1) : ~Boundary(q2)

\* A builder with its cursor at p and no error recorded.
BuilderAt(p) == [pos |-> p, errors |-> <<>>, spin |-> FALSE]

\* C19: synchronize, with the cursor not at EOF, consumes at least one token
\* and returns at the first boundary after that: the token consumed last is
\* ";" or the next token starts a top-level construct or is EOF; it consumes
\* nothing beyond and records no error.
SynchronizeStopsAtBoundary ==
    pc # "new" =>
        \A p \in 0..(Len(tokens) - 2) :
            /\ synchronize(BuilderAt(p)).pos >= p + 1
            /\ synchronize(BuilderAt(p)).pos = FirstBoundaryAfter(p)
            /\ synchronize(BuilderAt(p)).errors = <<>>
            /\ ~synchronize(BuilderAt(p)).spin

\* In a tolerant build, the recovery from the first error has consumed more
\* than the token the error is at and has ended just after a ";".
SynchronizedPastSemicolon ==
    /\ pc = "loop"
    /\ options.Tolerant
    /\ Len(errors) = 1
    /\ \E k \in 1..Len(tokens) :
          /\ tokens[k].Column = errors[1].Column
          /\ pos >= k + 1
    /\ pos >= 1
    /\ tokens[pos].Type = "SEMICOLON"

\* The kinds expect is applied with.
ExpectedKinds == { "SEMICOLON", "IDENTIFIER", "LPAREN", "RBRACE", "COMMA" }

\* C20: expect(kind) with the token of that kind at the cursor consumes that
\* one token, returns it and records nothing; otherwise it records one error
\* at the line and column of the token at the cursor and then moves the
\* cursor on, by one token in strict mode and to where synchronize stops in
\* tolerant mode, unless the cursor is at EOF.
ExpectAdvancesOrRecords ==
    pc # "new" =>
        \A p \in 0..(Len(tokens) - 1), t \in ExpectedKinds :
            IF tokens[p + 1].Type = t
            THEN /\ expect(BuilderAt(p), t).tok = tokens[p + 1]
                 /\ expect(BuilderAt(p), t).b = BuilderAt(p + 1)
            ELSE /\ Len(expect(BuilderAt(p), t).b.errors) = 1
                 /\ expect(BuilderAt(p), t).b.errors[1].Line = tokens[p + 1].Line
                 /\ expect(BuilderAt(p), t).b.errors[1].Column = tokens[p + 1].Column
                 /\ expect(BuilderAt(p), t).b.pos =
                       IF p = Len(tokens) - 1 THEN p
                       ELSE IF options.Tolerant THEN FirstBoundaryAfter(p)
                       ELSE p + 1

\* A strict build has ended on the error of a failed expect, one token past
\* the token the error is at.
ExpectFailedAndAdvanced ==
    /\ pc = "built"
    /\ ~options.Tolerant
    /\ Len(errors) = 1
    /\ errors[1].Message.format = "expected '%s', got '%s'"
    /\ pos >= 2
    /\ tokens[pos].Column = errors[1].Column
    /\ ~isAtEnd(Builder)

\* ---------------------------------------------------------------------
\* Lookahead in parseStatement (statements.go, looksLikeVariableDeclaration).

MaxLookaheadTokens == 3

LookaheadLexemes == { <<"x">>, <<"[">>, <<"]">>, <<".">>, <<"m","e","m","o","r","y">>, <<"u","i","n","t">>, <<";">> }

LookaheadStatements ==
    { <<"f","u","n","c","t","i","o","n"," ","f","(",")"," ","{"," ","x"," ","y",";"," ","}">>, <<"f","u","n","c","t","i","o","n"," ","f","(",")"," ","{"," ","x","[","1","]"," ","y",";"," ","}">>,
      <<"f","u","n","c","t","i","o","n"," ","f","(",")"," ","{"," ","x",".","y"," ","z",";"," ","}">>, <<"f","u","n","c","t","i","o","n"," ","f","(",")"," ","{"," ","x"," ","m","e","m","o","r","y"," ","y",";"," ","}">>,
      <<"f","u","n","c","t","i","o","n"," ","f","(",")"," ","{"," ","x","(",")",";"," ","}">>, <<"f","u","n","c","t","i","o","n"," ","f","(",")"," ","{"," ","x","[","1","]"," ","="," ","y",";"," ","}">>,
      <<"f","u","n","c","t","i","o","n"," ","f","(",")"," ","{"," ","u","i","n","t"," ","y",";"," ","}">>, <<"x"," ","["," ","]"," ","y">>, <<"x"," ","["," ","1"," ","]"," ","m","e","m","o","r","y"," ","y">>,
      <<"x"," ","."," ","y"," ","["," ","]"," ","z"," ",";">>, <<"x"," ","["," ",";"," ","]"," ","."," ","."," ","y">> }

LookaheadInputs ==
    LookaheadStatements \cup
    { Join(seq, <<" ">>) :
        seq \in UNION { [1..k -> LookaheadLexemes] : k \in 0..MaxLookaheadTokens } }

InitLookahead == InitOn(LookaheadInputs, { o \in Options : ~o.Loc /\ ~o.Range })

SpecLookahead == InitLookahead /\ [][Next]_vars

\* A builder with p tokens consumed and the errors recorded so far.
CursorAt(p) == [pos |-> p, errors |-> errors, spin |-> FALSE]

\* C21: looksLikeVariableDeclaration is a pure lookahead: from every cursor
\* position of every token stream, whether it answers yes or no, the cursor
\* on return is where it was on entry and the error list is unchanged.
LookaheadRestoresCursor ==
    \A p \in 0..(Len(tokens) - 1) :
        LET looks == looksLikeVariableDeclaration(CursorAt(p))
        IN  /\ looks.b.pos = p
            /\ looks.b.errors = errors
            /\ looks.yes \in BOOLEAN

\* A stream where the scan ran over "[ ]" before answering yes at one
\* position and ran forward before answering no at another.
LookaheadScannedAhead ==
    LET ahead(p) == looksLikeVariableDeclarationScan(CursorAt(p)).pos - p
        looks(p) == looksLikeVariableDeclaration(CursorAt(p))
    IN  /\ pc = "done"
        /\ \E p \in 0..(Len(tokens) - 1) :
              check(CursorAt(p), "IDENTIFIER") /\ ahead(p) >= 3 /\ looks(p).yes
        /\ \E q \in 0..(Len(tokens) - 1) :
              check(CursorAt(q), "IDENTIFIER") /\ ahead(q) >= 1 /\ ~looks(q).yes

\* ---------------------------------------------------------------------
\* Statements that start with "(" (statements.go,
\* parseTupleVariableDeclarationOrExpression).

MaxTupleTokens == 3

TupleLexemes == { <<"a">>, <<"+">>, <<",">>, <<"u","i","n","t">>, <<"1">> }

TupleSuffixes == { <<" ",")"," ",";">>, <<" ",")"," ","="," ","c"," ",";">> }

\* function f() { ( seq ) ; } and function f() { ( seq ) = c ; }
TupleStatement(seq, suffix) ==
    <<"f","u","n","c","t","i","o","n"," ","f","(",")"," ","{"," ","("," ">> \o Join(seq, <<" ">>) \o suffix \o <<" ","}">>

TupleInputs ==
    { TupleStatement(seq, suffix) :
        seq \in UNION { [1..k -> TupleLexemes] : k \in 0..MaxTupleTokens },
        suffix \in TupleSuffixes }

InitTuple == InitOn(TupleInputs, Options)

SpecTuple == InitTuple /\ [][Next]_vars

\* Parenthesized expressions that are not declarations: no type keyword and
\* no identifier followed by a name.
ParenthesizedExpressions ==
    { <<<<"1">>>>, <<<<"a">>>>, <<<<"a">>, <<"+">>, <<"a">>>>, <<<<"a">>, <<"+">>, <<"1">>>>,
      <<<<"1">>, <<"+">>, <<"a">>>>, <<<<"1">>, <<"+">>, <<"1">>>>, <<<<"1">>, <<",">>, <<"1">>>> }

\* C22: when the speculative tuple declaration fails, the statement is parsed
\* again from its "(" as an expression statement, so that "( a + a ) ;" gives
\* an ExpressionStatement holding the parenthesized expression and records no
\* error.
ParenthesizedStatementReparsed ==
    \A seq \in ParenthesizedExpressions :
        (pc = "done" /\ input = TupleStatement(seq, <<" ",")"," ",";">>)) =>
            /\ errors = <<>>
            /\ ret.err = Nil
            /\ ret.tree.Children[1].Body.Statements[1].Type = "ExpressionStatement"
            /\ ret.tree.Children[1].Body.Statements[1].Expression.Type
                    = "TupleExpression"

\* "( a + a ) ;" has been parsed: the expression statement was parsed from the
\* token after "(", holds a + a without its parentheses, and the ")" was
\* reported where ";" was expected.
ParenthesizedStatementRefused ==
    /\ pc = "done"
    /\ options.Tolerant
    /\ input = TupleStatement(<<<<"a">>, <<"+">>, <<"a">>>>, <<" ",")"," ",";">>)
    /\ Len(errors) = 1
    /\ errors[1].Line = 1
    /\ errors[1].Column = 23
    /\ ret.tree.Children[1].Body.Statements[1].Type = "ExpressionStatement"
    /\ ret.tree.Children[1].Body.Statements[1].Expression.Type = "BinaryOperation"

\* ---------------------------------------------------------------------
\* Try statements (statements.go, parseTryStatement and parseCatchClause).

MaxCatches == 2

\* The expression after "try"; the second has call options in braces, the
\* third has them inside parentheses.
TryChains ==
    { <<"x",".","f","(",")">>, <<"x",".","f","{","v","a","l","u","e",":"," ","1","}","(",")">>, <<"(","x",".","f","{","v","a","l","u","e",":"," ","1","}",")">>, <<"x","[","1","]",".","f","(",")">>, <<"n","e","w"," ","X","(",")">>,
      <<"x">> }

ReturnForms ==
    { [names |-> <<>>, text |-> <<>>],
      [names |-> <<<<"a">>>>, text |-> <<"r","e","t","u","r","n","s"," ","(","u","i","n","t"," ","a",")"," ">>],
      [names |-> <<<<"a">>, <<"b">>>>, text |-> <<"r","e","t","u","r","n","s"," ","(","u","i","n","t"," ","a",","," ","u","i","n","t"," ","b",")"," ">>] }

CatchForms ==
    { [kind |-> <<>>, names |-> <<>>, text |-> <<"c","a","t","c","h"," ","{"," ","}">>],
      [kind |-> <<"E","r","r","o","r">>, names |-> <<<<"r">>>>,
       text |-> <<"c","a","t","c","h"," ","E","r","r","o","r","(","s","t","r","i","n","g"," ","m","e","m","o","r","y"," ","r",")"," ","{"," ","}">>],
      [kind |-> <<"P","a","n","i","c">>, names |-> <<<<"c">>>>, text |-> <<"c","a","t","c","h"," ","P","a","n","i","c","(","u","i","n","t"," ","c",")"," ","{"," ","}">>],
      [kind |-> <<>>, names |-> <<<<"d">>>>, text |-> <<"c","a","t","c","h"," ","(","b","y","t","e","s"," ","m","e","m","o","r","y"," ","d",")"," ","{"," ","}">>] }

CatchLists == UNION { [1..k -> CatchForms] : k \in 0..MaxCatches }

TryInput(chain, returns, catches) ==
    <<"f","u","n","c","t","i","o","n"," ","f","(",")"," ","{"," ","t","r","y"," ">> \o chain \o <<" ">> \o returns.text \o <<"{"," ","}"," ">>
        \o Join([i \in DOMAIN catches |-> catches[i].text], <<" ">>) \o <<" ","}">>

TryInputs ==
    { TryInput(chain, returns, catches) :
        chain \in TryChains, returns \in ReturnForms, catches \in CatchLists }

\* The inputs with the forms they were put together from.
TryCases ==
    { [text |-> TryInput(chain, returns, catches), chain |-> chain,
       returns |-> returns, catches |-> catches] :
        chain \in TryChains, returns \in ReturnForms, catches \in CatchLists }

InitTry == InitOn(TryInputs, { o \in Options : ~o.Loc })

SpecTry == InitTry /\ [][Next]_vars

\* The names of a list of parameters.
ParameterNamesOf(parameters) == [i \in DOMAIN parameters |-> parameters[i].Name]

\* C23: the expression of a TryStatement is never a FunctionCallOptions, and
\* a catch clause has isReasonStringType exactly when its identifier is
\* Error; when the expression after "try" has no braces, the parameters after
\* "returns" are the TryStatement's returnParameters and the catch clauses
\* are those of the source, in its order, each with its own parameters.
TryBodyOpensAtFirstBrace ==
    (pc = "done" /\ ret.tree # Nil) =>
        /\ \A try \in { n \in Nodes(ret.tree) : n.Type = "TryStatement" } :
              /\ try.Expression # Nil => try.Expression.Type # "FunctionCallOptions"
              /\ \A i \in DOMAIN try.CatchClauses :
                    try.CatchClauses[i].IsReasonStringType
                        <=> (try.CatchClauses[i].Kind = <<"E","r","r","o","r">>)
        /\ \A case \in TryCases :
              (input = case.text /\ case.chain # <<"x",".","f","{","v","a","l","u","e",":"," ","1","}","(",")">>) =>
                  LET try == ret.tree.Children[1].Body.Statements[1]
                      returns == case.returns
                      catches == case.catches
                  IN  /\ errors = <<>>
                      /\ try.Type = "TryStatement"
                      /\ ParameterNamesOf(try.ReturnParameters) = returns.names
                      /\ try.Body.Type = "Block"
                      /\ Len(try.CatchClauses) = Len(catches)
                      /\ \A i \in DOMAIN catches :
                            /\ try.CatchClauses[i].Kind = catches[i].kind
                            /\ ParameterNamesOf(try.CatchClauses[i].Parameters)
                                    = catches[i].names
                            /\ try.CatchClauses[i].IsReasonStringType
                                    = (catches[i].kind = <<"E","r","r","o","r">>)

\* What the code does about the expression: it is a FunctionCallOptions only
\* when the text after "try" is a parenthesized expression with call options,
\* which parseTupleOrParenthesized returns without its parentheses.
TryExpressionHasOptionsOnlyFromParentheses ==
    (pc = "done" /\ ret.tree # Nil) =>
        \A case \in TryCases :
            input = case.text =>
                \A try \in { n \in Nodes(ret.tree) : n.Type = "TryStatement" } :
                    (try.Expression # Nil
                        /\ try.Expression.Type = "FunctionCallOptions")
                        => case.chain = <<"(","x",".","f","{","v","a","l","u","e",":"," ","1","}",")">>

\* "try (x.f{value: 1}) { } catch { }" has been parsed without an error, in
\* strict mode: the expression of the TryStatement is a FunctionCallOptions.
TryExpressionIsCallOptions ==
    /\ pc = "done"
    /\ ~options.Tolerant
    /\ input = TryInput(<<"(","x",".","f","{","v","a","l","u","e",":"," ","1","}",")">>, CHOOSE r \in ReturnForms : r.names = <<>>,
                        << CHOOSE c \in CatchForms : c.text = <<"c","a","t","c","h"," ","{"," ","}">> >>)
    /\ errors = <<>>
    /\ ret.err = Nil
    /\ ret.tree.Children[1].Body.Statements[1].Type = "TryStatement"
    /\ ret.tree.Children[1].Body.Statements[1].Expression.Type
            = "FunctionCallOptions"
    /\ ret.tree.Children[1].Body.Statements[1].Body.Type = "Block"
    /\ Len(ret.tree.Children[1].Body.Statements[1].CatchClauses) = 1

\* A try statement with two return parameters and the clauses catch Panic and
\* catch Error, in this order, has been parsed.
TryWithReturnsAndTwoCatches ==
    /\ pc = "done"
    /\ ret.tree # Nil
    /\ \E try \in { n \in Nodes(ret.tree) : n.Type = "TryStatement" } :
          /\ try.Expression.Type = "FunctionCall"
          /\ Len(try.ReturnParameters) = 2
          /\ Len(try.CatchClauses) = 2
          /\ try.CatchClauses[1].Kind = <<"P","a","n","i","c">>
          /\ ~try.CatchClauses[1].IsReasonStringType
          /\ try.CatchClauses[2].IsReasonStringType
          /\ Len(try.CatchClauses[2].Parameters) = 1

\* The braces of call options after "try" have been parsed as the try body.
TryCallOptionsTakenAsBody ==
    /\ pc = "done"
    /\ options.Tolerant
    /\ input = TryInput(<<"x",".","f","{","v","a","l","u","e",":"," ","1","}","(",")">>, CHOOSE r \in ReturnForms : r.names = <<>>,
                        <<>>)
    /\ \E try \in { n \in Nodes(ret.tree) : n.Type = "TryStatement" } :
          /\ try.Expression.Type = "MemberAccess"
          /\ try.Body.Type = "Block"
          /\ Len(errors) > 0

\* ---------------------------------------------------------------------
\* using { ... } for T (helpers.go, parseUsingDirective).

MaxUsingFunctions == 3

\* A listed function, with the operator bound to it (empty for none).
UsingForms ==
    { [name |-> <<"f">>, op |-> <<>>, text |-> <<"f">>],
      [name |-> <<"g">>, op |-> <<>>, text |-> <<"g">>],
      [name |-> <<"f">>, op |-> <<"+">>, text |-> <<"f"," ","a","s"," ","+">>],
      [name |-> <<"g">>, op |-> <<"-">>, text |-> <<"g"," ","a","s"," ","-">>],
      [name |-> <<"h">>, op |-> <<"=","=">>, text |-> <<"h"," ","a","s"," ","=","=">>] }

UsingLists == UNION { [1..k -> UsingForms] : k \in 0..MaxUsingFunctions }

UsingInput(items) ==
    <<"u","s","i","n","g"," ","{"," ">> \o Join([i \in DOMAIN items |-> items[i].text], <<","," ">>)
        \o <<" ","}"," ","f","o","r"," ","u","i","n","t",";">>

\* The inputs with the lists they were put together from.
UsingCases == { [text |-> UsingInput(items), items |-> items] : items \in UsingLists }

InitUsing == InitOn({ case.text : case \in UsingCases }, Options)

SpecUsing == InitUsing /\ [][Next]_vars

\* C24: in "using { f1 (as op)?, f2, ... } for T" the operators list has the
\* length of the functions list and the operator bound by "as" to the i-th
\* function is operators[i].
UsingOperatorsParallel ==
    \A case \in UsingCases :
        (pc = "done" /\ ret.tree # Nil /\ input = case.text) =>
            LET node == ret.tree.Children[1]
            IN  /\ node.Type = "UsingForDeclaration"
                /\ node.Functions = [i \in DOMAIN case.items |-> case.items[i].name]
                /\ Len(node.Operators) = Len(node.Functions)
                /\ \A i \in DOMAIN case.items :
                      case.items[i].op # <<>> => node.Operators[i] = case.items[i].op

\* The operators list holds the operators of the "as" clauses only, in their
\* order: what the code keeps for every list.
UsingOperatorsCompacted ==
    \A case \in UsingCases :
        (pc = "done" /\ ret.tree # Nil /\ input = case.text) =>
            LET node == ret.tree.Children[1]
                bound == SelectSeq(case.items, LAMBDA item : item.op # <<>>)
            IN  /\ errors = <<>>
                /\ node.Functions = [i \in DOMAIN case.items |-> case.items[i].name]
                /\ node.Operators = [i \in DOMAIN bound |-> bound[i].op]

\* "using { f, g as - } for uint;" has been parsed without error: two
\* functions, one operator, and the operator of the second function is at
\* index 1.
UsingOperatorShifted ==
    /\ pc = "done"
    /\ input = <<"u","s","i","n","g"," ","{"," ","f",","," ","g"," ","a","s"," ","-"," ","}"," ","f","o","r"," ","u","i","n","t",";">>
    /\ errors = <<>>
    /\ ret.tree.Children[1].Functions = <<<<"f">>, <<"g">>>>
    /\ ret.tree.Children[1].Operators = <<<<"-">>>>

\* ---------------------------------------------------------------------
\* Function definitions in inline assembly (statements.go,
\* parseAssemblyFunctionDefinition).

MaxAssemblyArguments == 2

AssemblyArgumentLists ==
    UNION { [1..k -> {<<"a">>, <<"b">>}] : k \in 0..MaxAssemblyArguments }

AssemblyReturnLists ==
    UNION { [1..k -> {<<"r">>, <<"s">>}] : k \in 0..MaxAssemblyArguments }

\* "->" as the grammar writes it and "=>", the text of the ARROW token.
AssemblyArrows == { <<"-",">">>, <<"=",">">> }

AssemblyFunctionInput(args, arrow, rets) ==
    <<"f","u","n","c","t","i","o","n"," ","f","(",")"," ","{"," ","a","s","s","e","m","b","l","y"," ","{"," ","f","u","n","c","t","i","o","n"," ","g","(">> \o Join(args, <<","," ">>) \o <<")"," ">>
        \o (IF rets = <<>> THEN <<>> ELSE arrow \o <<" ">> \o Join(rets, <<","," ">>) \o <<" ">>)
        \o <<"{"," ","}"," ","}"," ","}">>

\* The inputs with the lists they were put together from.
AssemblyFunctionCases ==
    { [text |-> AssemblyFunctionInput(args, arrow, rets), args |-> args,
       arrow |-> arrow, rets |-> rets] :
        args \in AssemblyArgumentLists, arrow \in AssemblyArrows,
        rets \in AssemblyReturnLists }

InitAssemblyFunction ==
    InitOn({ case.text : case \in AssemblyFunctionCases }, Options)

SpecAssemblyFunction == InitAssemblyFunction /\ [][Next]_vars

\* The names of a list of identifiers.
NamesOf(identifiers) == [i \in DOMAIN identifiers |-> identifiers[i].Name]

\* The operations of the assembly block of function f in the tree under
\* construction.
AssemblyOperations == built.tree.Children[1].Body.Statements[1].Body.Operations

\* C25: "function g(args) -> r1, r2 { }" in inline assembly parses without
\* error into one AssemblyFunctionDefinition with the listed arguments and,
\* as returnArguments, the identifiers after "->"; without "->" the
\* returnArguments are empty.
AssemblyFunctionReturns ==
    \A case \in AssemblyFunctionCases :
        (pc = "done" /\ input = case.text
            /\ (case.rets = <<>> \/ case.arrow = <<"-",">">>)) =>
            /\ errors = <<>>
            /\ Len(AssemblyOperations) = 1
            /\ AssemblyOperations[1].Type = "AssemblyFunctionDefinition"
            /\ NamesOf(AssemblyOperations[1].Arguments) = case.args
            /\ NamesOf(AssemblyOperations[1].ReturnArguments) = case.rets

\* What the code does keep: without return values, and with return values
\* after "=>", the definition is parsed without error.
AssemblyFunctionReturnsAfterArrowToken ==
    \A case \in AssemblyFunctionCases :
        (pc = "done" /\ input = case.text
            /\ (case.rets = <<>> \/ case.arrow = <<"=",">">>)) =>
            /\ errors = <<>>
            /\ Len(AssemblyOperations) = 1
            /\ NamesOf(AssemblyOperations[1].Arguments) = case.args
            /\ NamesOf(AssemblyOperations[1].ReturnArguments) = case.rets

\* "function g(a) -> r { }" has been parsed: "->" was reported where "{" was
\* expected and the definition has no return arguments.
AssemblyReturnsRefused ==
    /\ pc = "done"
    /\ options.Tolerant
    /\ input = AssemblyFunctionInput(<<<<"a">>>>, <<"-",">">>, <<<<"r">>>>)
    /\ Len(errors) > 0
    /\ errors[1].Line = 1
    /\ errors[1].Column = 40
    /\ AssemblyOperations[1].Type = "AssemblyFunctionDefinition"
    /\ NamesOf(AssemblyOperations[1].Arguments) = <<<<"a">>>>
    /\ AssemblyOperations[1].ReturnArguments = <<>>

\* ---------------------------------------------------------------------
\* loc and range of one node (helpers.go, setLocation).

\* Literals whose token value is the text of the token.
PlainLiterals == { <<"1">>, <<"1","0">>, <<"x">>, <<"t","r","u","e">> }

\* Numbers with "_" separators and strings: the token value is shorter than
\* the text of the token.
RewrittenLiterals ==
    { <<"1","_","0">>, <<"1","_","0","0","0">>, Quoted(<<"a","b">>), Quoted(<<>>), Quoted(<<"a", "\\", "n">>),
      <<"'">> \o <<"a">> \o <<"'">> }

LiteralContexts ==
    { [pre |-> <<"u","i","n","t"," ","x"," ","="," ">>, post |-> <<";">>],
      [pre |-> <<"u","i","n","t"," ","x"," ","=">> \o <<"\n">> \o <<" "," ">>, post |-> <<";">>],
      [pre |-> <<"u","i","n","t"," ","x"," ","="," ","y"," ","+"," ">>, post |-> <<";">>],
      [pre |-> <<"f","u","n","c","t","i","o","n"," ","f","(",")"," ","{"," ","a","s","s","e","m","b","l","y"," ","{"," ","g","(">>, post |-> <<")"," ","}"," ","}">>],
      [pre |-> <<"f","u","n","c","t","i","o","n"," ","f","(",")"," ","{"," ","a","s","s","e","m","b","l","y"," ","{"," ","x"," ","="," ">>, post |-> <<" ","}"," ","}">>] }

LiteralInput(context, literal) == context.pre \o literal \o context.post

LiteralInputs ==
    { LiteralInput(context, literal) :
        context \in LiteralContexts, literal \in PlainLiterals \cup RewrittenLiterals }

InitLocations == InitOn(LiteralInputs, { o \in Options : o.Loc /\ o.Range })

SpecLocations == InitLocations /\ [][Next]_vars

\* The line feeds among the first offset bytes of the input.
LineFeedsBefore(offset) == { i \in 1..offset : input[i] = "\n" }

\* The (line, column) of a source offset: lines from 1, columns from 0, a
\* line feed starts a line.
PositionOf(offset) ==
    [line |-> 1 + Cardinality(LineFeedsBefore(offset)),
     column |-> offset - (CHOOSE last \in LineFeedsBefore(offset) \cup {0} :
                            \A i \in LineFeedsBefore(offset) : i <= last)]

\* loc and range of node n describe the same span of the input.
SameSpan(n) ==
    /\ n.Loc.start = PositionOf(n.Range.lo)
    /\ n.Loc.end = PositionOf(n.Range.hi)

\* The nodes of the returned tree that have both loc and range.
LocatedNodes ==
    IF pc = "done" /\ ret.tree # Nil
    THEN { n \in Nodes(ret.tree) : n.Loc # Nil /\ n.Range # Nil }
    ELSE {}

\* C26: for every node that has both loc and range, loc.start is the (line,
\* column) of offset range[0] and loc.end the (line, column) of offset
\* range[1], also when the node's last token is a string literal or a number
\* with "_" separators.
LocAndRangeSameSpan == \A n \in LocatedNodes : SameSpan(n)

\* What the code does keep: the spans agree when the last token of every node
\* is one whose value is its text.
LocAndRangeSameSpanOnPlainTokens ==
    (\E context \in LiteralContexts, literal \in PlainLiterals :
        input = LiteralInput(context, literal))
        => \A n \in LocatedNodes : SameSpan(n)

\* g("ab") in an assembly block has been parsed with loc and range: the
\* AssemblyLiteral has range [28, 32] and a loc that ends at column 30, and
\* the AssemblyCall around it, which ends at ")", has equal spans.
AssemblyLiteralLocEndsEarly ==
    /\ pc = "done"
    /\ input = <<"f","u","n","c","t","i","o","n"," ","f","(",")"," ","{"," ","a","s","s","e","m","b","l","y"," ","{"," ","g","(">> \o Quoted(<<"a","b">>) \o <<")"," ","}"," ","}">>
    /\ errors = <<>>
    /\ AssemblyOperations[1].Type = "AssemblyCall"
    /\ SameSpan(AssemblyOperations[1])
    /\ AssemblyOperations[1].Arguments[1].Type = "AssemblyLiteral"
    /\ AssemblyOperations[1].Arguments[1].Range = [lo |-> 28, hi |-> 32]
    /\ AssemblyOperations[1].Arguments[1].Loc.start = [line |-> 1, column |-> 28]
    /\ AssemblyOperations[1].Arguments[1].Loc.end = [line |-> 1, column |-> 30]

\* ---------------------------------------------------------------------
\* The four entry points that build a FunctionDefinition (helpers.go).

MaxModifiers == 2

\* What stands before the parameter list, with the flags it calls for.
FunctionEntries ==
    { [text |-> <<"f","u","n","c","t","i","o","n"," ","f">>, flags |-> <<FALSE, FALSE, FALSE>>],
      [text |-> <<"f","u","n","c","t","i","o","n">>, flags |-> <<FALSE, FALSE, FALSE>>],
      [text |-> <<"f","u","n","c","t","i","o","n"," ","f","a","l","l","b","a","c","k">>, flags |-> <<FALSE, TRUE, FALSE>>],
      [text |-> <<"f","u","n","c","t","i","o","n"," ","r","e","c","e","i","v","e">>, flags |-> <<FALSE, FALSE, TRUE>>],
      [text |-> <<"c","o","n","s","t","r","u","c","t","o","r">>, flags |-> <<TRUE, FALSE, FALSE>>],
      [text |-> <<"f","a","l","l","b","a","c","k">>, flags |-> <<FALSE, TRUE, FALSE>>],
      [text |-> <<"r","e","c","e","i","v","e">>, flags |-> <<FALSE, FALSE, TRUE>>] }

FunctionModifierWords == { <<"e","x","t","e","r","n","a","l">>, <<"p","a","y","a","b","l","e">>, <<"v","i","r","t","u","a","l">>, <<"o","v","e","r","r","i","d","e">>, <<"m">> }

FunctionModifierLists ==
    UNION { [1..k -> FunctionModifierWords] : k \in 0..MaxModifiers }

FunctionBodies == { <<";">>, <<"{"," ","}">> }

FunctionInput(entry, modifiers, body) ==
    <<"c","o","n","t","r","a","c","t"," ","C"," ","{"," ">> \o entry.text \o <<"(",")"," ">>
        \o Join(modifiers, <<" ">>) \o <<" ">> \o body \o <<" ","}">>

\* The inputs with the entry they were put together from; the second kind has
\* the definition at the top level of the source unit.
FunctionCases ==
    { [text |-> FunctionInput(entry, modifiers, body), entry |-> entry] :
        entry \in FunctionEntries, modifiers \in FunctionModifierLists,
        body \in FunctionBodies }

FreeFunctionInputs ==
    { entry.text \o <<"(",")"," ">> \o Join(modifiers, <<" ">>) \o <<" ","{"," ","}">> :
        entry \in FunctionEntries, modifiers \in FunctionModifierLists }

InitFunctions ==
    InitOn({ case.text : case \in FunctionCases } \cup FreeFunctionInputs,
           { o \in Options : ~o.Loc /\ ~o.Range })

SpecFunctions == InitFunctions /\ [][Next]_vars

\* isConstructor, isFallback, isReceiveEther of a FunctionDefinition.
FlagsOf(n) == <<n.IsConstructor, n.IsFallback, n.IsReceiveEther>>

\* C27: every FunctionDefinition of a returned tree has at most one of
\* isConstructor, isFallback, isReceiveEther set, whichever entry point built
\* it and whatever modifiers follow; in a contract body the flag set is the
\* one of the entry point.
AtMostOneFunctionKind ==
    (pc = "done" /\ ret.tree # Nil) =>
        /\ \A n \in Nodes(ret.tree) :
              n.Type = "FunctionDefinition" =>
                  Cardinality({ i \in 1..3 : FlagsOf(n)[i] }) <= 1
        /\ \A case \in FunctionCases :
              (input = case.text /\ Len(ret.tree.Children[1].SubNodes) > 0
                  /\ ret.tree.Children[1].SubNodes[1].Type = "FunctionDefinition") =>
                  FlagsOf(ret.tree.Children[1].SubNodes[1]) = case.entry.flags

\* A tree that holds a receive function with two modifiers has been returned,
\* and so has one with "function fallback".
ReceiveAndNamedFallbackParsed ==
    /\ pc = "done"
    /\ ret.tree # Nil
    /\ errors = <<>>
    /\ \E n \in Nodes(ret.tree) :
          /\ n.Type = "FunctionDefinition"
          /\ \/ /\ input = <<"c","o","n","t","r","a","c","t"," ","C"," ","{"," ","r","e","c","e","i","v","e","(",")"," ","e","x","t","e","r","n","a","l"," ","p","a","y","a","b","l","e"," ","{"," ","}"," ","}">>
                /\ FlagsOf(n) = <<FALSE, FALSE, TRUE>>
                /\ n.Visibility = <<"e","x","t","e","r","n","a","l">>
             \/ /\ input = <<"c","o","n","t","r","a","c","t"," ","C"," ","{"," ","f","u","n","c","t","i","o","n"," ","f","a","l","l","b","a","c","k","(",")"," ","e","x","t","e","r","n","a","l"," ","p","a","y","a","b","l","e"," ","{"," ","}"," ","}">>
                /\ FlagsOf(n) = <<FALSE, TRUE, FALSE>>
                /\ n.Name = <<"f","a","l","l","b","a","c","k">>

\* ---------------------------------------------------------------------
\* Walk and WalkSimple on the trees Parse returns (parser.go).

\* Declarations with and without a body, tuple declarations with and without
\* an empty slot.
WalkInputs ==
    Corpus \cup
    { <<"c","o","n","t","r","a","c","t"," ","C"," ","{"," ","f","u","n","c","t","i","o","n"," ","f","(",")"," ","{"," ","}"," ","}">>,
      <<"c","o","n","t","r","a","c","t"," ","C"," ","{"," ","f","u","n","c","t","i","o","n"," ","f","(",")",";"," ","}">>,
      <<"i","n","t","e","r","f","a","c","e"," ","I"," ","{"," ","f","u","n","c","t","i","o","n"," ","f","(","u","i","n","t"," ","a",")"," ","e","x","t","e","r","n","a","l"," ","r","e","t","u","r","n","s"," ","(","u","i","n","t",")",";"," ","}">>,
      <<"c","o","n","t","r","a","c","t"," ","C"," ","{"," ","m","o","d","i","f","i","e","r"," ","m","(",")"," ","{"," ","_",";"," ","}"," ","}">>,
      <<"c","o","n","t","r","a","c","t"," ","C"," ","{"," ","m","o","d","i","f","i","e","r"," ","m",";"," ","}">>,
      <<"c","o","n","t","r","a","c","t"," ","C"," ","{"," ","m","o","d","i","f","i","e","r"," ","m","(",")"," ","v","i","r","t","u","a","l",";"," ","}">>,
      <<"f","u","n","c","t","i","o","n"," ","f","(",")"," ","{"," ","(","u","i","n","t"," ","a",","," ","u","i","n","t"," ","b",")"," ","="," ","c",";"," ","}">>,
      <<"f","u","n","c","t","i","o","n"," ","f","(",")"," ","{"," ","(",","," ","u","i","n","t"," ","b",")"," ","="," ","c",";"," ","}">>,
      <<"f","u","n","c","t","i","o","n"," ","f","(",")"," ","{"," ","(","u","i","n","t"," ","a",","," ",")"," ","="," ","c",";"," ","}">>,
      <<"f","u","n","c","t","i","o","n"," ","f","(",")"," ","{"," ","u","i","n","t"," ","a"," ","="," ","1",";"," ","}">>,
      <<"c","o","n","t","r","a","c","t"," ","C"," ","{"," ","u","i","n","t"," ","x",";"," ","}">>,
      <<"c","o","n","t","r","a","c","t"," ","C"," ","i","s"," ","B"," ","{"," ","}">>,
      <<"e","n","u","m"," ","E"," ","{"," ","A",","," ","B"," ","}">>,
      <<"f","u","n","c","t","i","o","n"," ","f","(",")"," ","{"," ","t","r","y"," ","x",".","f","(",")"," ","{"," ","}"," ","c","a","t","c","h"," ","{"," ","}"," ","}">> }

\* The inputs among them that declare a function or a modifier with ";" or
\* leave a slot of a tuple declaration empty.
WalkInputsWithAbsentChild ==
    { <<"c","o","n","t","r","a","c","t"," ","C"," ","{"," ","f","u","n","c","t","i","o","n"," ","f","(",")",";"," ","}">>,
      <<"i","n","t","e","r","f","a","c","e"," ","I"," ","{"," ","f","u","n","c","t","i","o","n"," ","f","(","u","i","n","t"," ","a",")"," ","e","x","t","e","r","n","a","l"," ","r","e","t","u","r","n","s"," ","(","u","i","n","t",")",";"," ","}">>,
      <<"c","o","n","t","r","a","c","t"," ","C"," ","{"," ","m","o","d","i","f","i","e","r"," ","m",";"," ","}">>,
      <<"c","o","n","t","r","a","c","t"," ","C"," ","{"," ","m","o","d","i","f","i","e","r"," ","m","(",")"," ","v","i","r","t","u","a","l",";"," ","}">>,
      <<"f","u","n","c","t","i","o","n"," ","f","(",")"," ","{"," ","(",","," ","u","i","n","t"," ","b",")"," ","="," ","c",";"," ","}">>,
      <<"f","u","n","c","t","i","o","n"," ","f","(",")"," ","{"," ","(","u","i","n","t"," ","a",","," ",")"," ","="," ","c",";"," ","}">> }

InitWalk == InitOn(WalkInputs, { o \in Options : ~o.Loc /\ ~o.Range })

NextWalk == Next \/ Walk \/ WalkSimple

SpecWalk == InitWalk /\ [][NextWalk]_vars

RECURSIVE NodeCount(_), NodeCountOfSlice(_), NodeCountOfFields(_, _)

\* How many nodes the tree under n holds, n included.
NodeCount(n) ==
    IF n = Nil THEN 0
    ELSE 1 + NodeCountOfFields(n, DOMAIN n \cap (nodeFields(n.Type)
                                                    \cup listFields(n.Type)))

NodeCountOfSlice(slice) ==
    IF slice = <<>> THEN 0
    ELSE NodeCount(Head(slice)) + NodeCountOfSlice(Tail(slice))

NodeCountOfFields(n, fields) ==
    IF fields = {} THEN 0
    ELSE LET f == CHOOSE f \in fields : TRUE
         IN  (IF f \in listFields(n.Type) THEN NodeCountOfSlice(n[f])
              ELSE NodeCount(n[f]))
                 + NodeCountOfFields(n, fields \ {f})

\* The nodes a walk handed to the visitor.
Visited == { walked.walk.visited[i] : i \in DOMAIN walked.walk.visited }

\* C28: Walk and WalkSimple complete without a nil dereference on every tree
\* Parse returns: an absent body of a function or modifier and an empty slot
\* of a tuple declaration are skipped, and every node of the tree is handed
\* to the visitor once.
WalkCompletes ==
    (walked # Nil /\ walked.descend) =>
        /\ ~walked.walk.panicked
        /\ Nil \notin Visited
        /\ Visited = Nodes(ret.tree)
        /\ Len(walked.walk.visited) = NodeCount(ret.tree)

\* What the code does keep: on a tree without an absent body and without an
\* empty tuple slot the walk completes, hands no nil to the visitor and hands
\* it nodes of the tree only, the root first.
WalkCompletesOnFullTrees ==
    (walked # Nil /\ input \notin WalkInputsWithAbsentChild) =>
        /\ ~walked.walk.panicked
        /\ Nil \notin Visited
        /\ Visited \subseteq Nodes(ret.tree)
        /\ walked.walk.visited[1] = ret.tree
        /\ ~walked.descend => Len(walked.walk.visited) = 1

\* Walk on the tree of "contract C { function f(); }": the visitor got the
\* source unit, the contract, the function and then a nil *Block, and the
\* walk ended in a nil pointer dereference.
WalkPanicsOnAbsentBody ==
    /\ walked # Nil
    /\ walked.by = "Walk"
    /\ walked.descend
    /\ input = <<"c","o","n","t","r","a","c","t"," ","C"," ","{"," ","f","u","n","c","t","i","o","n"," ","f","(",")",";"," ","}">>
    /\ errors = <<>>
    /\ ret.tree.Children[1].SubNodes[1].Body = Nil
    /\ Len(walked.walk.visited) = 4
    /\ walked.walk.visited[3] = ret.tree.Children[1].SubNodes[1]
    /\ walked.walk.visited[4] = Nil
    /\ walked.walk.panicked

\* ---------------------------------------------------------------------
\* Recovery in front of a declaration (helpers.go, parseSourceUnitElement,
\* parseContractBodyElement and addError).

MaxJunkTokens == 2

\* Tokens that neither start a declaration nor a type name.
JunkLexemes == { <<")">>, <<"1">>, <<"=">> }

JunkLists == UNION { [1..k -> JunkLexemes] : k \in 1..MaxJunkTokens }

\* Declarations that start with a keyword synchronize stops in front of.
TopLevelDeclarations ==
    { [type |-> "ContractDefinition", name |-> <<"D">>, text |-> <<"c","o","n","t","r","a","c","t"," ","D"," ","{"," ","}">>],
      [type |-> "ContractDefinition", name |-> <<"I">>, text |-> <<"i","n","t","e","r","f","a","c","e"," ","I"," ","{"," ","}">>],
      [type |-> "FunctionDefinition", name |-> <<"g">>, text |-> <<"f","u","n","c","t","i","o","n"," ","g","(",")"," ","{"," ","}">>],
      [type |-> "StructDefinition", name |-> <<"S">>, text |-> <<"s","t","r","u","c","t"," ","S"," ","{"," ","u","i","n","t"," ","a",";"," ","}">>],
      [type |-> "EnumDefinition", name |-> <<"E">>, text |-> <<"e","n","u","m"," ","E"," ","{"," ","A"," ","}">>] }

MemberDeclarations ==
    { [type |-> "FunctionDefinition", name |-> <<"g">>, text |-> <<"f","u","n","c","t","i","o","n"," ","g","(",")"," ","{"," ","}">>],
      [type |-> "StructDefinition", name |-> <<"S">>, text |-> <<"s","t","r","u","c","t"," ","S"," ","{"," ","u","i","n","t"," ","a",";"," ","}">>],
      [type |-> "EventDefinition", name |-> <<"V">>, text |-> <<"e","v","e","n","t"," ","V","(",")",";">>] }

\* The inputs with what they were put together from: junk and a declaration
\* at the top level, or both inside the body of contract C.
ResumeCases ==
    { [text |-> Join(junk, <<" ">>) \o <<" ">> \o decl.text, decl |-> decl,
       inContract |-> FALSE] :
        junk \in JunkLists, decl \in TopLevelDeclarations }
    \cup
    { [text |-> <<"c","o","n","t","r","a","c","t"," ","C"," ","{"," ">> \o Join(junk, <<" ">>) \o <<" ">> \o decl.text
                    \o <<" ","}">>,
       decl |-> decl, inContract |-> TRUE] :
        junk \in JunkLists, decl \in MemberDeclarations }

InitResume ==
    InitOn({ case.text : case \in ResumeCases },
           { o \in Options : ~o.Loc /\ ~o.Range })

SpecResume == InitResume /\ [][Next]_vars

\* The node of the declaration is among the given nodes.
Declared(nodes, decl) ==
    \E i \in DOMAIN nodes : nodes[i].Type = decl.type /\ nodes[i].Name = decl.name

\* C29: in tolerant mode, after an unexpected token at source-unit level or
\* in a contract body, synchronization stops in front of the keyword of the
\* declaration that follows and this keyword is dispatched next: the
\* declaration is parsed and is in the returned tree.
DeclarationAfterRecoveryParsed ==
    \A case \in ResumeCases :
        (pc = "done" /\ options.Tolerant /\ input = case.text) =>
            IF case.inContract
            THEN /\ Len(ret.tree.Children) = 1
                 /\ ret.tree.Children[1].Type = "ContractDefinition"
                 /\ Declared(ret.tree.Children[1].SubNodes, case.decl)
            ELSE Declared(ret.tree.Children, case.decl)

\* Every time the default arm of parseSourceUnitElement meets a junk token in
\* tolerant mode with a keyword after it, the cursor ends one token beyond
\* the keyword synchronize stopped in front of.
RecoverySkipsKeyword ==
    [][(/\ pc = "loop"
        /\ options.Tolerant
        /\ peek(Builder).Value \in JunkLexemes
        /\ pos + 1 < Len(tokens)
        /\ tokens[synchronize(Builder).pos + 1].Type \in Starters)
            => (/\ pos' = synchronize(Builder).pos + 1
                /\ tokens[pos'].Type \in Starters
                /\ Len(errors') = Len(errors) + 1)]_vars

\* ") contract D { }" has been parsed in tolerant mode: one error at the ")",
\* and no contract in the tree.
KeywordSkippedAfterRecovery ==
    /\ pc = "done"
    /\ options.Tolerant
    /\ input = <<")"," ","c","o","n","t","r","a","c","t"," ","D"," ","{"," ","}">>
    /\ Len(errors) >= 1
    /\ errors[1].Line = 1
    /\ errors[1].Column = 0
    /\ errors[1].Message = Sprintf("unexpected token: %s", <<<<")">>>>)
    /\ \A i \in DOMAIN ret.tree.Children :
          ret.tree.Children[i].Type # "ContractDefinition"

(***************************************************************************)
(* Specification SpecPositions: Parse runs on every text of at most        *)
(* MaxPositionBytes bytes over line feeds, carriage returns, comment       *)
(* delimiters, a string quote, a letter, a digit and an operator byte.     *)
(***************************************************************************)
MaxPositionBytes == 5

PositionBytes == { "a", "1", "=", "\n", "\r", "/", "*", "\"" }

PositionInputs == UNION { [1..k -> PositionBytes] : k \in 0..MaxPositionBytes }

InitPositions == InitOn(PositionInputs, ScanOptions)

SpecPositions == InitPositions /\ [][Next]_vars

\* C30: once the text is tokenized, every token before the last has
\* 0 <= Start < End <= Len(input), consecutive tokens do not overlap and are in
\* source order, the last token is the only EOF token and has
\* Start = End = Len(input), and every token's Line (counted from 1) and Column
\* (counted from 0) are the line and column of its Start offset, where only a
\* line feed starts a new line.
TokensOrderedAndPositioned ==
    pc # "new" =>
        /\ Len(tokens) >= 1
        /\ tokens[Len(tokens)].Type = "EOF"
        /\ tokens[Len(tokens)].Start = Len(input)
        /\ tokens[Len(tokens)].End = Len(input)
        /\ \A i \in 1..(Len(tokens) - 1) :
              /\ tokens[i].Type # "EOF"
              /\ 0 <= tokens[i].Start
              /\ tokens[i].Start < tokens[i].End
              /\ tokens[i].End <= Len(input)
              /\ tokens[i].End <= tokens[i + 1].Start
        /\ \A i \in 1..Len(tokens) :
              /\ tokens[i].Line >= 1
              /\ tokens[i].Column >= 0
              /\ [line |-> tokens[i].Line, column |-> tokens[i].Column]
                    = PositionOf(tokens[i].Start)

\* a token after a carriage return on the second line, behind a comment
TokenAfterCommentAndCarriageReturn ==
    /\ pc = "done"
    /\ input = <<"/","/">> \o <<"\n", "\r">> \o <<"a">>
    /\ Len(tokens) = 2
    /\ tokens[1].Type = "IDENTIFIER"
    /\ tokens[1].Start = 4
    /\ tokens[1].Line = 2
    /\ tokens[1].Column = 1
====
